---- MODULE Spec2Model ----
(***************************************************************************)
(* webpsmux: the authentication rate limiter and basic-auth gate           *)
(* (server/middleware.go) and the psmux Controller (pkg/psmux).            *)
(*                                                                         *)
(* Time is an integer number of clock ticks; TicksPerSecond ticks make a   *)
(* second, so that durations which are not whole seconds exist.  ZeroTime  *)
(* is Go's time.Time{} and lies before every instant the clock shows.      *)
(***************************************************************************)
EXTENDS Integers, Sequences, FiniteSets, TLC

\* ------------------------------------------------------------------ bounds
TicksPerSecond == 2
MaxFailCount == 5
MaxWindow == 5
MaxBurst == 101
MaxWindows == 2
MaxPanes == 2
MaxPaneId == 1
MaxFaults == 1
MaxLayouts == 2
MaxClosers == 2
MaxCloseTimeout == 2
MaxClock == 3
MaxLines == 3
MaxHeaders == 2
MaxRelock == 6
MaxHandlers == 2
MaxSources == 50

\* ------------------------------------------------------------------- time
Second == TicksPerSecond
Minute == 60 * Second
ZeroTime == 0
StartTime == 100 * Minute

\* The instants at which the clock is observed (time.Now()).
ClockInstants ==
    { StartTime, StartTime + 1, StartTime + Minute, StartTime + 6 * Minute }

\* The instants of the burst specification.
BurstInstants ==
    { StartTime, StartTime + 2 * Minute }

\* The instants of the window specification: the second lies within two
\* minutes of the first, the third more than five minutes after the first
\* and less than five after the second.
WindowInstants ==
    { StartTime, StartTime + Minute, StartTime + 5 * Minute + 1 }

\* The instants of the cleanup specification: the second lies more than
\* thirty minutes after the first.
CleanupInstants ==
    { StartTime, StartTime + 31 * Minute }

\* The instants of the relock specification: the second is the instant a
\* one-minute lock set at the first expires, the third lies just after it,
\* the fourth more than thirty minutes after every lock set before it.
RelockInstants ==
    { StartTime, StartTime + Minute, StartTime + Minute + 1, StartTime + 40 * Minute }

\* The source of the burst.
BurstIPs == { << "1", "0", ".", "0", ".", "0", ".", "1" >> }

\* Client addresses, as extractClientIP returns them.
IPs == { << "1", "0", ".", "0", ".", "0", ".", "1" >>,
         << "1", "0", ".", "0", ".", "0", ".", "2" >> }

\* -------------------------------------------------------- lockout rules
\* The table with the first two durations exchanged.
ipLockoutRulesExchanged ==
    << [attempts |-> 5,  duration |-> 5 * Minute],
       [attempts |-> 10, duration |-> 1 * Minute],
       [attempts |-> 20, duration |-> 15 * Minute] >>

ipLockoutRules ==
    << [attempts |-> 5,  duration |-> 1 * Minute],
       [attempts |-> 10, duration |-> 5 * Minute],
       [attempts |-> 20, duration |-> 15 * Minute] >>

\* The global table with its durations in the opposite order.
globalLockoutRulesDescending ==
    << [failures |-> 100, duration |-> 30 * Minute],
       [failures |-> 200, duration |-> 10 * Minute],
       [failures |-> 500, duration |-> 2 * Minute] >>

globalLockoutRules ==
    << [failures |-> 100, duration |-> 2 * Minute],
       [failures |-> 200, duration |-> 10 * Minute],
       [failures |-> 500, duration |-> 30 * Minute] >>

globalWindowDuration == 5 * Minute

cleanupRetention == 30 * Minute

\* ------------------------------------------------------- time.Time helpers
Before(t, u) == t < u
After(t, u) == t > u

\* ---------------------------------------------------------- rate limiter
\* newRateLimiter: empty attempts map, empty window, zero global lock.
newRateLimiter ==
    [ attempts          |-> << >>,
      globalFailures    |-> << >>,
      globalLockedUntil |-> ZeroTime ]

newAttemptInfo == [ failCount |-> 0, lockedUntil |-> ZeroTime ]

\* pruneGlobalFailures keeping every failure.
pruneGlobalFailuresKeepsAll(failures, t) == failures

\* pruneGlobalFailures: keep the failures strictly after now - window.
pruneGlobalFailures(failures, t) ==
    LET cutoff == t - globalWindowDuration
        keep(f) == After(f, cutoff)
    IN  SelectSeq(failures, keep)

\* checkLocked without the global lock.
checkLockedIpOnly(rl, ip, t) ==
    IF ip \in DOMAIN rl.attempts /\ Before(t, rl.attempts[ip].lockedUntil)
    THEN [ locked |-> TRUE, remaining |-> rl.attempts[ip].lockedUntil - t,
           reason |-> "ip" ]
    ELSE [ locked |-> FALSE, remaining |-> 0, reason |-> "" ]

\* checkLocked with the caller's own lock looked at first.
checkLockedIpFirst(rl, ip, t) ==
    IF ip \in DOMAIN rl.attempts /\ Before(t, rl.attempts[ip].lockedUntil)
    THEN [ locked |-> TRUE, remaining |-> rl.attempts[ip].lockedUntil - t,
           reason |-> "ip" ]
    ELSE IF Before(t, rl.globalLockedUntil)
    THEN [ locked |-> TRUE, remaining |-> rl.globalLockedUntil - t,
           reason |-> "global" ]
    ELSE [ locked |-> FALSE, remaining |-> 0, reason |-> "" ]

\* checkLocked: the global lock is looked at first, then the caller's own.
checkLocked(rl, ip, t) ==
    IF Before(t, rl.globalLockedUntil)
    THEN [ locked |-> TRUE, remaining |-> rl.globalLockedUntil - t,
           reason |-> "global" ]
    ELSE IF ip \in DOMAIN rl.attempts /\ Before(t, rl.attempts[ip].lockedUntil)
    THEN [ locked |-> TRUE, remaining |-> rl.attempts[ip].lockedUntil - t,
           reason |-> "ip" ]
    ELSE [ locked |-> FALSE, remaining |-> 0, reason |-> "" ]

\* The loop with a rule taking effect only above its threshold.
RECURSIVE applyIpRulesAbove(_, _, _, _)
applyIpRulesAbove(i, failCount, lockedUntil, t) ==
    IF i > Len(ipLockoutRules) THEN lockedUntil
    ELSE applyIpRulesAbove(i + 1, failCount,
             IF failCount > ipLockoutRules[i].attempts
             THEN t + ipLockoutRules[i].duration
             ELSE lockedUntil,
             t)

\* The loop over ipLockoutRules: every satisfied rule overwrites lockedUntil,
\* in the order of the table.
RECURSIVE applyIpRules(_, _, _, _)
applyIpRules(i, failCount, lockedUntil, t) ==
    IF i > Len(ipLockoutRules) THEN lockedUntil
    ELSE applyIpRules(i + 1, failCount,
             IF failCount >= ipLockoutRules[i].attempts
             THEN t + ipLockoutRules[i].duration
             ELSE lockedUntil,
             t)

\* The loop over globalLockoutRules, on the length of the pruned window.
RECURSIVE applyGlobalRules(_, _, _, _)
applyGlobalRules(i, failureCount, lockedUntil, t) ==
    IF i > Len(globalLockoutRules) THEN lockedUntil
    ELSE applyGlobalRules(i + 1, failureCount,
             IF failureCount >= globalLockoutRules[i].failures
             THEN t + globalLockoutRules[i].duration
             ELSE lockedUntil,
             t)

\* recordFailure starting the count again once the lock has expired.
recordFailureResetting(rl, ip, t) ==
    LET info     == IF ip \in DOMAIN rl.attempts THEN rl.attempts[ip]
                    ELSE newAttemptInfo
        expired  == info.lockedUntil # ZeroTime /\ After(t, info.lockedUntil)
        count    == IF expired THEN 1 ELSE info.failCount + 1
        newInfo  == [ failCount   |-> count,
                      lockedUntil |-> applyIpRules(1, count, info.lockedUntil, t) ]
        failures == pruneGlobalFailures(Append(rl.globalFailures, t), t)
    IN  [ attempts          |-> [ a \in DOMAIN rl.attempts \cup {ip} |->
                                    IF a = ip THEN newInfo ELSE rl.attempts[a] ],
          globalFailures    |-> failures,
          globalLockedUntil |-> applyGlobalRules(1, Len(failures),
                                                 rl.globalLockedUntil, t) ]

\* recordFailure
recordFailure(rl, ip, t) ==
    LET info     == IF ip \in DOMAIN rl.attempts THEN rl.attempts[ip]
                    ELSE newAttemptInfo
        count    == info.failCount + 1
        newInfo  == [ failCount   |-> count,
                      lockedUntil |-> applyIpRules(1, count, info.lockedUntil, t) ]
        failures == pruneGlobalFailures(Append(rl.globalFailures, t), t)
    IN  [ attempts          |-> [ a \in DOMAIN rl.attempts \cup {ip} |->
                                    IF a = ip THEN newInfo ELSE rl.attempts[a] ],
          globalFailures    |-> failures,
          globalLockedUntil |-> applyGlobalRules(1, Len(failures),
                                                 rl.globalLockedUntil, t) ]

\* recordSuccess resetting the count and keeping the lock.
recordSuccessKeepsLock(rl, ip) ==
    IF ip \in DOMAIN rl.attempts
    THEN [ rl EXCEPT !.attempts[ip].failCount = 0 ]
    ELSE rl

\* recordSuccess creating the entry of a source that has none.
recordSuccessCreates(rl, ip) ==
    [ rl EXCEPT !.attempts = [ a \in DOMAIN rl.attempts \cup {ip} |->
                                 IF a = ip THEN [ failCount |-> 0, lockedUntil |-> ZeroTime ]
                                 ELSE rl.attempts[a] ] ]

\* recordSuccess
recordSuccess(rl, ip) ==
    IF ip \in DOMAIN rl.attempts
    THEN [ rl EXCEPT !.attempts[ip] = [ failCount |-> 0, lockedUntil |-> ZeroTime ] ]
    ELSE rl

\* cleanup
cleanup(rl, t) ==
    LET cutoff == t - cleanupRetention
        kept   == { a \in DOMAIN rl.attempts :
                      ~ ( Before(rl.attempts[a].lockedUntil, cutoff)
                          /\ rl.attempts[a].failCount = 0 ) }
    IN  [ attempts          |-> [ a \in kept |-> rl.attempts[a] ],
          globalFailures    |-> pruneGlobalFailures(rl.globalFailures, t),
          globalLockedUntil |-> rl.globalLockedUntil ]

\* ------------------------------------------------------------ basic auth
\* Strings are sequences of one-character strings.
UpperCase ==
    << "A","B","C","D","E","F","G","H","I","J","K","L","M",
       "N","O","P","Q","R","S","T","U","V","W","X","Y","Z" >>
LowerCase ==
    << "a","b","c","d","e","f","g","h","i","j","k","l","m",
       "n","o","p","q","r","s","t","u","v","w","x","y","z" >>
Digits == << "0","1","2","3","4","5","6","7","8","9" >>

\* strings.ToLower
ToLower(s) ==
    [ i \in 1..Len(s) |->
        IF \E k \in 1..26 : UpperCase[k] = s[i]
        THEN LowerCase[CHOOSE k \in 1..26 : UpperCase[k] = s[i]]
        ELSE s[i] ]

\* strings.SplitN(s, " ", 2): cut at the first space, if there is one.
SplitN2(s) ==
    IF \E i \in 1..Len(s) : s[i] = " "
    THEN LET i == CHOOSE j \in 1..Len(s) :
                     s[j] = " " /\ \A k \in 1..(j - 1) : s[k] # " "
         IN  << SubSeq(s, 1, i - 1), SubSeq(s, i + 1, Len(s)) >>
    ELSE << s >>

\* unicode.IsSpace, of the characters of one byte
IsSpace(c) == c \in { " ", "\t", "\n", "\r" }

\* The literal lit stands in s at position i.
HasAt(s, i, lit) ==
    /\ i >= 1
    /\ i + Len(lit) - 1 <= Len(s)
    /\ SubSeq(s, i, i + Len(lit) - 1) = lit

\* strings.Contains
Contains(s, lit) == \E i \in 1..(Len(s) + 1) : HasAt(s, i, lit)

\* strings.TrimSpace
TrimSpace(s) ==
    LET inked == { i \in 1..Len(s) : ~ IsSpace(s[i]) }
    IN  IF inked = { } THEN << >>
        ELSE SubSeq(s, CHOOSE i \in inked : \A j \in inked : i <= j,
                       CHOOSE i \in inked : \A j \in inked : i >= j)

\* strings.Split(s, sep) for a separator of one character
RECURSIVE Split(_, _)
Split(s, sep) ==
    IF \E i \in 1..Len(s) : s[i] = sep
    THEN LET i == CHOOSE j \in 1..Len(s) :
                     s[j] = sep /\ \A k \in 1..(j - 1) : s[k] # sep
         IN  << SubSeq(s, 1, i - 1) >> \o Split(SubSeq(s, i + 1, Len(s)), sep)
    ELSE << s >>

\* base64.StdEncoding: the alphabet, '=' padding, four characters a quantum.
encodeStd == UpperCase \o LowerCase \o Digits \o << "+", "/" >>

IsB64(c) == \E k \in 1..64 : encodeStd[k] = c
B64Val(c) == (CHOOSE k \in 1..64 : encodeStd[k] = c) - 1

\* One quantum of four characters: 3 bytes, or 2 or 1 before padding.
DecodeQuantum(q, final) ==
    IF IsB64(q[1]) /\ IsB64(q[2]) /\ IsB64(q[3]) /\ IsB64(q[4])
    THEN LET v == B64Val(q[1]) * 262144 + B64Val(q[2]) * 4096
                  + B64Val(q[3]) * 64 + B64Val(q[4])
         IN  [ err |-> FALSE,
               bytes |-> << v \div 65536, (v \div 256) % 256, v % 256 >> ]
    ELSE IF final /\ IsB64(q[1]) /\ IsB64(q[2]) /\ IsB64(q[3]) /\ q[4] = "="
    THEN LET v == B64Val(q[1]) * 262144 + B64Val(q[2]) * 4096
                  + B64Val(q[3]) * 64
         IN  [ err |-> FALSE, bytes |-> << v \div 65536, (v \div 256) % 256 >> ]
    ELSE IF final /\ IsB64(q[1]) /\ IsB64(q[2]) /\ q[3] = "=" /\ q[4] = "="
    THEN LET v == B64Val(q[1]) * 262144 + B64Val(q[2]) * 4096
         IN  [ err |-> FALSE, bytes |-> << v \div 65536 >> ]
    ELSE [ err |-> TRUE, bytes |-> << >> ]

\* base64.StdEncoding.DecodeString
RECURSIVE DecodeString(_)
DecodeString(s) ==
    IF Len(s) = 0 THEN [ err |-> FALSE, bytes |-> << >> ]
    ELSE IF Len(s) < 4 THEN [ err |-> TRUE, bytes |-> << >> ]
    ELSE LET head == DecodeQuantum(SubSeq(s, 1, 4), Len(s) = 4)
             rest == DecodeString(SubSeq(s, 5, Len(s)))
         IN  IF head.err \/ rest.err THEN [ err |-> TRUE, bytes |-> << >> ]
             ELSE [ err |-> FALSE, bytes |-> head.bytes \o rest.bytes ]

\* The configured credential "u:p", as bytes.
credential == << 117, 58, 112 >>

\* Authorization header values a client may send.
Headers ==
    { << >>,                                                  \* no header
      << "B","a","s","i","c" >>,                              \* no token
      << "B","e","a","r","e","r"," ","d","T","p","w" >>,      \* other scheme
      << "B","a","s","i","c"," ","d","T","p" >>,              \* short token
      << "B","a","s","i","c"," ","d","T","p","x" >>,          \* "u:q"
      << "B","a","s","i","c"," ","d","T","p","w" >>,          \* "u:p"
      << "b","a","s","i","c"," ","d","T","p","w" >> }         \* "u:p"

\* The parse with the decoding error dropped.
parseAuthorizationNoErr ==
    [ h \in Headers |->
        LET token == SplitN2(h)
        IN  IF Len(token) # 2 \/ ToLower(token[1]) # << "b","a","s","i","c" >>
            THEN [ basic |-> FALSE, err |-> FALSE, payload |-> << >> ]
            ELSE [ basic   |-> TRUE,
                   err     |-> FALSE,
                   payload |-> DecodeString(token[2]).bytes ] ]

\* What the handler makes of each Authorization value: the split, the scheme
\* test, the decoding of the token.
parseAuthorization ==
    [ h \in Headers |->
        LET token == SplitN2(h)
        IN  IF Len(token) # 2 \/ ToLower(token[1]) # << "b","a","s","i","c" >>
            THEN [ basic |-> FALSE, err |-> FALSE, payload |-> << >> ]
            ELSE [ basic   |-> TRUE,
                   err     |-> DecodeString(token[2]).err,
                   payload |-> DecodeString(token[2]).bytes ] ]

\* The header of a wrong and of the right credential.
WrongCredential == << "B","a","s","i","c"," ","d","T","p","x" >>
RightCredential == << "B","a","s","i","c"," ","d","T","p","w" >>

\* The peer address of a connection from ip: the address and a port.
PeerPort == << ":", "1", "2", "3", "4" >>
PeerOf(ip) == ip \o PeerPort

\* Requests: peer address, X-Forwarded-For, X-Real-IP, Authorization.
\* Direct requests carry every header value; the forwarded ones guess.
Requests ==
    [ remoteAddr : { PeerOf(ip) : ip \in IPs }, xff : { << >> }, xri : { << >> },
      authorization : Headers ]
    \cup
    [ remoteAddr : { PeerOf(<< "1", "0", ".", "0", ".", "0", ".", "1" >>) },
      xff : { << >>, << "1", "0", ".", "0", ".", "0", ".", "2" >> },
      xri : { << >>, << "1", "0", ".", "0", ".", "0", ".", "2" >> },
      authorization : { WrongCredential } ]

\* The requests of the burst: one source that never authenticates, and
\* the other sources, which hold the credential.
BurstRequests ==
    [ remoteAddr : { PeerOf(ip) : ip \in BurstIPs }, xff : { << >> }, xri : { << >> },
      authorization : { << >>, WrongCredential } ]
    \cup
    [ remoteAddr : { PeerOf(ip) : ip \in IPs \ BurstIPs }, xff : { << >> },
      xri : { << >> }, authorization : { RightCredential } ]

\* strings.Trim(s, cutset)
Trim(s, cutset) ==
    LET kept == { i \in 1..Len(s) : s[i] \notin cutset }
    IN  IF kept = { } THEN << >>
        ELSE SubSeq(s, CHOOSE i \in kept : \A j \in kept : i <= j,
                       CHOOSE i \in kept : \A j \in kept : i >= j)

\* The first and the last position of character c in s, 0 when there is none.
IndexByte(s, c) ==
    IF \E i \in 1..Len(s) : s[i] = c
    THEN CHOOSE i \in 1..Len(s) : s[i] = c /\ \A j \in 1..(i - 1) : s[j] # c
    ELSE 0

LastIndexByte(s, c) ==
    IF \E i \in 1..Len(s) : s[i] = c
    THEN CHOOSE i \in 1..Len(s) : s[i] = c /\ \A j \in (i + 1)..Len(s) : s[j] # c
    ELSE 0

\* net.SplitHostPort: the port is what follows the last colon; a host in
\* brackets ends at the bracket before that colon, a host without has no
\* colon; no other bracket anywhere.
SplitHostPort(hostport) ==
    LET i    == LastIndexByte(hostport, ":")
        end  == IndexByte(hostport, "]")
        bad  == [ err |-> TRUE, host |-> << >> ]
        rest(from) == SubSeq(hostport, from, Len(hostport))
    IN  IF i = 0 THEN bad
        ELSE IF hostport[1] = "["
        THEN IF end = 0 \/ end + 1 # i THEN bad
             ELSE IF IndexByte(rest(2), "[") # 0 \/ IndexByte(rest(end + 1), "]") # 0
             THEN bad
             ELSE [ err |-> FALSE, host |-> SubSeq(hostport, 2, end - 1) ]
        ELSE IF IndexByte(SubSeq(hostport, 1, i - 1), ":") # 0 THEN bad
             ELSE IF IndexByte(hostport, "[") # 0 \/ IndexByte(hostport, "]") # 0
             THEN bad
             ELSE [ err |-> FALSE, host |-> SubSeq(hostport, 1, i - 1) ]

\* The host of an address when it splits into host and port, else the
\* address; in either case with the brackets around it cut.
hostOf(addr) ==
    IF ~ SplitHostPort(addr).err
    THEN Trim(SplitHostPort(addr).host, { "[", "]" })
    ELSE Trim(addr, { "[", "]" })

\* extractClientIP: forwarded-for first, then real-IP, then the peer.
extractClientIP(r) ==
    LET first  == TrimSpace(Split(r.xff, ",")[1])
        realIP == TrimSpace(r.xri)
    IN  IF r.xff # << >> /\ first # << >> THEN hostOf(first)
        ELSE IF realIP # << >> THEN Trim(realIP, { "[", "]" })
        ELSE hostOf(TrimSpace(r.remoteAddr))

\* The address of the k-th of many clients.
SourceAddr(k) ==
    << "1", "0", ".", "0", ".", Digits[(k \div 10) + 1], ".", Digits[(k % 10) + 1] >>

\* The request of the k-th client: it connects directly and guesses.
GuessOf(k) ==
    [ remoteAddr |-> PeerOf(SourceAddr(k)), xff |-> << >>, xri |-> << >>,
      authorization |-> WrongCredential ]

SequentialRequests == { GuessOf(k) : k \in 0..(MaxSources - 1) }

\* The client address of each request, as extractClientIP returns it.
clientIP ==
    [ r \in Requests \cup BurstRequests \cup SequentialRequests |-> extractClientIP(r) ]

\* The Retry-After value rounded up before one is added.
retryAfterRoundedUp(remaining) == ((remaining + Second - 1) \div Second) + 1

\* The Retry-After value: int(remaining.Seconds()) + 1.
retryAfter(remaining) == (remaining \div Second) + 1

\* What an operation returned or wrote to the client.
NoResult ==
    [ op |-> "", ip |-> << >>, at |-> ZeroTime, header |-> << >>,
      locked |-> FALSE, remaining |-> 0, reason |-> "",
      status |-> 0, retryAfter |-> 0, challenge |-> FALSE,
      compared |-> FALSE, served |-> FALSE ]

\* The response a request starts from.
responseTo(r, t) ==
    [ NoResult EXCEPT !.op = "wrapBasicAuth", !.ip = clientIP[r], !.at = t,
                      !.header = r.authorization ]

\* The answer to a request whose source is locked out.
tooManyRequests(r, chk, t) ==
    [ responseTo(r, t) EXCEPT !.locked = TRUE,
                              !.remaining = chk.remaining,
                              !.reason = chk.reason,
                              !.status = 429,
                              !.retryAfter = retryAfter(chk.remaining) ]

\* The handler after the lock check: the header is parsed, the credentials
\* are compared and the outcome is recorded at instant t.
authenticate(rl, r, t) ==
    LET ip     == clientIP[r]
        parsed == parseAuthorization[r.authorization]
        base   == responseTo(r, t)
    IN  IF ~ parsed.basic
        THEN [ rl   |-> rl,
               resp |-> [ base EXCEPT !.status = 401, !.challenge = TRUE ] ]
        ELSE IF parsed.err
        THEN [ rl   |-> rl,
               resp |-> [ base EXCEPT !.status = 500 ] ]
        ELSE IF credential # parsed.payload
        THEN [ rl   |-> recordFailure(rl, ip, t),
               resp |-> [ base EXCEPT !.status = 401, !.challenge = TRUE,
                                      !.compared = TRUE ] ]
        ELSE [ rl   |-> recordSuccess(rl, ip),
               resp |-> [ base EXCEPT !.status = 200, !.compared = TRUE,
                                      !.served = TRUE ] ]

\* The handler wrapBasicAuth returns, run with no other request in between:
\* its response, and the limiter after it.
wrapBasicAuth(rl, r, t) ==
    LET chk == checkLocked(rl, clientIP[r], t)
    IN  IF chk.locked
        THEN [ rl |-> rl, resp |-> tooManyRequests(r, chk, t) ]
        ELSE authenticate(rl, r, t)

\* A handler that serves no request.
NoRequest == [ pc |-> "idle" ]

\* The requests of the concurrent handlers: one source, with a wrong and
\* with the right credential.
ConcurrentRequests ==
    [ remoteAddr : { PeerOf(ip) : ip \in BurstIPs }, xff : { << >> }, xri : { << >> },
      authorization : { WrongCredential, RightCredential } ]

\* ------------------------------------------------------------ multiplexer
\* The psmux server the Controller drives through subprocess calls.  It is
\* not part of the repository: a session is a list of windows, a window a
\* list of panes, one window of a session and one pane of a window current.
SessionNames == << "build", "main" >>
DefaultSession == "main"

WinID(i) == << "@", i >>
PaneID(n) == << "%", n >>

Range(f) == { f[i] : i \in DOMAIN f }

RemoveAt(seq, k) == [ i \in 1..(Len(seq) - 1) |-> IF i < k THEN seq[i] ELSE seq[i + 1] ]

NewMuxWindow(index, pane) ==
    [ index |-> index, active |-> TRUE, panes |-> << pane >>, cur |-> pane ]

MuxPanes(m) ==
    UNION { UNION { Range(m.sess[s][i].panes) : i \in 1..Len(m.sess[s]) } : s \in DOMAIN m.sess }

HasFreshPane(m) == \E n \in 0..MaxPaneId : n \notin MuxPanes(m)
FreshPane(m) ==
    CHOOSE n \in 0..MaxPaneId : n \notin MuxPanes(m) /\ \A k \in 0..(n - 1) : k \in MuxPanes(m)

FreshIndex(wins) ==
    CHOOSE n \in 0..Len(wins) :
        /\ \A i \in 1..Len(wins) : wins[i].index # n
        /\ \A k \in 0..(n - 1) : \E i \in 1..Len(wins) : wins[i].index = k

Deactivated(wins) == [ i \in 1..Len(wins) |-> [ wins[i] EXCEPT !.active = FALSE ] ]

\* has-session -t s
muxHasSession(m, s) == s \in DOMAIN m.sess

\* new-session -d -s s
muxCanNewSession(m, s) == s \notin DOMAIN m.sess /\ HasFreshPane(m)
muxNewSession(m, s) ==
    [ m EXCEPT !.sess = [ x \in DOMAIN m.sess \cup {s} |->
                            IF x = s THEN << NewMuxWindow(0, FreshPane(m)) >>
                            ELSE m.sess[x] ] ]

\* select-pane -t %n
muxCanSelectPane(m, n) == n \in MuxPanes(m)
muxSelectPane(m, n) ==
    [ m EXCEPT !.sess = [ s \in DOMAIN m.sess |->
        [ i \in 1..Len(m.sess[s]) |->
            IF n \in Range(m.sess[s][i].panes)
            THEN [ m.sess[s][i] EXCEPT !.cur = n ]
            ELSE m.sess[s][i] ] ] ]

\* select-window -t @n, in the session of the client
muxCanSelectWindow(m, n) ==
    /\ m.client \in DOMAIN m.sess
    /\ \E i \in 1..Len(m.sess[m.client]) : m.sess[m.client][i].index = n
muxSelectWindow(m, n) ==
    [ m EXCEPT !.sess[m.client] =
        [ i \in 1..Len(m.sess[m.client]) |->
            [ m.sess[m.client][i] EXCEPT !.active = (m.sess[m.client][i].index = n) ] ] ]

\* switch-client -t s
muxCanSwitchClient(m, s) == s \in DOMAIN m.sess
muxSwitchClient(m, s) == [ m EXCEPT !.client = s ]

\* split-window -t s: a new pane in the active window, which becomes current
muxCanSplit(m, s) ==
    /\ s \in DOMAIN m.sess
    /\ HasFreshPane(m)
    /\ \E i \in 1..Len(m.sess[s]) :
          m.sess[s][i].active /\ Len(m.sess[s][i].panes) < MaxPanes
muxSplit(m, s) ==
    [ m EXCEPT !.sess[s] =
        [ i \in 1..Len(m.sess[s]) |->
            IF m.sess[s][i].active
            THEN [ m.sess[s][i] EXCEPT !.panes = Append(@, FreshPane(m)),
                                       !.cur = FreshPane(m) ]
            ELSE m.sess[s][i] ] ]

\* new-window -t s: a new window with one pane, which becomes active
muxCanNewWindow(m, s) ==
    s \in DOMAIN m.sess /\ HasFreshPane(m) /\ Len(m.sess[s]) < MaxWindows
muxNewWindow(m, s) ==
    [ m EXCEPT !.sess[s] =
        Append(Deactivated(m.sess[s]),
               NewMuxWindow(FreshIndex(m.sess[s]), FreshPane(m))) ]

\* kill-pane -t %n: the pane goes; a window without panes goes; a session
\* without windows goes
KillInWindow(w, n) ==
    LET k    == CHOOSE i \in 1..Len(w.panes) : w.panes[i] = n
        rest == RemoveAt(w.panes, k)
    IN  [ w EXCEPT !.panes = rest,
                   !.cur = IF w.cur = n /\ Len(rest) > 0 THEN rest[1] ELSE w.cur ]

KillInSession(wins, n) ==
    LET killed == [ i \in 1..Len(wins) |->
                      IF n \in Range(wins[i].panes) THEN KillInWindow(wins[i], n)
                      ELSE wins[i] ]
        nonEmpty(w) == Len(w.panes) > 0
        left   == SelectSeq(killed, nonEmpty)
    IN  IF Len(left) > 0 /\ \A i \in 1..Len(left) : ~ left[i].active
        THEN [ left EXCEPT ![1].active = TRUE ]
        ELSE left

muxCanKillPane(m, n) == n \in MuxPanes(m)
muxKillPane(m, n) ==
    LET after == [ s \in DOMAIN m.sess |-> KillInSession(m.sess[s], n) ]
        alive == { s \in DOMAIN after : Len(after[s]) > 0 }
    IN  [ m EXCEPT !.sess = [ s \in alive |-> after[s] ] ]

\* What a listing call may come to: its output as the server has it; no
\* output, the call failing; or output with a line of another shape in it.
Outcomes == { "ok", "failed", "garbled" }

\* A line that none of the three expressions matches.
JunkLine == [ match |-> FALSE ]

Output(lines, outcome) ==
    IF outcome = "garbled" THEN Append(lines, JunkLine) ELSE lines

\* ls: one line a session, in name order
muxLs(m) ==
    LET exists(s) == s \in DOMAIN m.sess
        names == SelectSeq(SessionNames, exists)
    IN  [ i \in 1..Len(names) |->
            [ match |-> TRUE,
              name |-> names[i], windows |-> Len(m.sess[names[i]]),
              attached |-> (names[i] = m.client) ] ]

\* list-windows -t s: one line a window, the active one starred
muxListWindows(m, s) ==
    [ i \in 1..Len(m.sess[s]) |->
        [ match |-> TRUE,
          index |-> m.sess[s][i].index, name |-> "pwsh",
          star |-> m.sess[s][i].active, panes |-> Len(m.sess[s][i].panes) ] ]

\* list-panes -t s:index: one line a pane, in the order of the window
muxListPanes(m, s, index) ==
    LET w == CHOOSE w \in Range(m.sess[s]) : w.index = index
    IN  [ k \in 1..Len(w.panes) |-> [ match |-> TRUE, id |-> w.panes[k] ] ]

\* ----------------------------------------------------------------- parser
\* A line that is empty once trimmed; the loop passes over it.
BlankLine == [ blank |-> TRUE ]

\* A line the expression does not match ends the parse with an error.
Unmatched(lines) ==
    \E i \in 1..Len(lines) : lines[i] # BlankLine /\ ~ lines[i].match

\* The position of the line that ends the parse, one past the last line
\* when there is none.
stopsAt(lines) ==
    IF Unmatched(lines)
    THEN CHOOSE i \in 1..Len(lines) :
            /\ lines[i] # BlankLine /\ ~ lines[i].match
            /\ \A j \in 1..(i - 1) : lines[j] = BlankLine \/ lines[j].match
    ELSE Len(lines) + 1

\* The positions of the lines appended from, in order, before position upto.
appendedFrom(lines, upto) ==
    LET kept(i) == lines[i] # BlankLine
    IN  SelectSeq([ i \in 1..(upto - 1) |-> i ], kept)

\* The error return: nil in place of what was appended so far.
parseErrorPartial(items) == [ err |-> TRUE, v |-> items ]

parseError(items) == [ err |-> TRUE, v |-> << >> ]

\* ParseSessions: the name is also the id; Active is left false.
ParseSessions(lines) ==
    LET at == appendedFrom(lines, stopsAt(lines))
        items == [ k \in 1..Len(at) |->
                     [ ID |-> lines[at[k]].name, Name |-> lines[at[k]].name,
                       Windows |-> lines[at[k]].windows,
                       Attached |-> lines[at[k]].attached,
                       Active |-> FALSE ] ]
    IN  IF Unmatched(lines) THEN parseError(items)
        ELSE [ err |-> FALSE, v |-> items ]

\* ParseWindows: the id is "@" and the index; the star marks the active one.
ParseWindows(lines) ==
    LET at == appendedFrom(lines, stopsAt(lines))
        items == [ k \in 1..Len(at) |->
                     [ ID |-> WinID(lines[at[k]].index),
                       Name |-> lines[at[k]].name,
                       Index |-> lines[at[k]].index,
                       Active |-> lines[at[k]].star,
                       Panes |-> << >> ] ]
    IN  IF Unmatched(lines) THEN parseError(items)
        ELSE [ err |-> FALSE, v |-> items ]

\* ParsePanes: Index is the position of the line among the lines of the
\* output, from 0, and the pane of the line at position 0 is Active.
ParsePanes(lines) ==
    LET at == appendedFrom(lines, stopsAt(lines))
        items == [ k \in 1..Len(at) |->
                     [ ID |-> PaneID(lines[at[k]].id), Index |-> at[k] - 1,
                       Active |-> (at[k] = 1) ] ]
    IN  IF Unmatched(lines) THEN parseError(items)
        ELSE [ err |-> FALSE, v |-> items ]

\* ------------------------------------------------------------- controller
NilLayout == [ nil |-> TRUE ]

\* What the listing calls of one refresh come to: ls, list-windows, and
\* list-panes for the window of each index.  A call after one that ended
\* the refresh is not made, and is given as "ok".
AllOk == [ i \in 0..(MaxWindows - 1) |-> "ok" ]

RefreshFailures ==
    { [ ls |-> o, windows |-> "ok", panes |-> AllOk ] : o \in Outcomes \ { "ok" } }
    \cup
    { [ ls |-> "ok", windows |-> o, panes |-> AllOk ] : o \in Outcomes \ { "ok" } }
    \cup
    { [ ls |-> "ok", windows |-> "ok", panes |-> p ] :
        p \in [ 0..(MaxWindows - 1) -> Outcomes ] }

NoFailures == [ ls |-> "ok", windows |-> "ok", panes |-> AllOk ]

\* The last window marked active gives ActiveWinID; the first pane listed for
\* an active window gives ActivePaneID.
LastActive(wins) ==
    IF \E i \in 1..Len(wins) : wins[i].Active
    THEN wins[CHOOSE i \in 1..Len(wins) :
                  wins[i].Active /\ \A j \in (i + 1)..Len(wins) : ~ wins[j].Active]
    ELSE [ ID |-> << >>, Panes |-> << >> ]

\* The first pane of the last window that has panes, active or not.
LastWithPanes(wins) ==
    IF \E i \in 1..Len(wins) : Len(wins[i].Panes) > 0
    THEN LET w == wins[CHOOSE i \in 1..Len(wins) :
                           /\ Len(wins[i].Panes) > 0
                           /\ \A j \in (i + 1)..Len(wins) : Len(wins[j].Panes) = 0]
         IN  w.Panes[1].ID
    ELSE << >>

LastActiveWithPanes(wins) ==
    IF \E i \in 1..Len(wins) : wins[i].Active /\ Len(wins[i].Panes) > 0
    THEN LET w == wins[CHOOSE i \in 1..Len(wins) :
                           /\ wins[i].Active /\ Len(wins[i].Panes) > 0
                           /\ \A j \in (i + 1)..Len(wins) :
                                  ~ (wins[j].Active /\ Len(wins[j].Panes) > 0)]
         IN  w.Panes[1].ID
    ELSE << >>

\* The loop marking every session active.
markActiveAll(sessions, name) ==
    [ i \in 1..Len(sessions) |-> [ sessions[i] EXCEPT !.Active = TRUE ] ]

\* The loop over the sessions: the one of the target's name is active.
markActive(sessions, name) ==
    [ i \in 1..Len(sessions) |->
        [ sessions[i] EXCEPT !.Active = (sessions[i].Name = name) ] ]

\* The loop over the windows ended by the first pane listing that fails:
\* no window gets panes.
withPanesUntilFailure(wins, name, m, fail) ==
    IF \E i \in 1..Len(wins) : fail.panes[wins[i].Index] # "ok"
    THEN wins
    ELSE [ i \in 1..Len(wins) |->
             [ wins[i] EXCEPT
                 !.Panes = ParsePanes(muxListPanes(m, name, wins[i].Index)).v ] ]

\* The loop over the windows: a window whose pane listing fails, or does
\* not parse, keeps no panes.
withPanes(wins, name, m, fail) ==
    [ i \in 1..Len(wins) |->
        IF fail.panes[wins[i].Index] = "failed" THEN wins[i]
        ELSE LET parsed == ParsePanes(Output(muxListPanes(m, name, wins[i].Index),
                                            fail.panes[wins[i].Index]))
             IN  IF parsed.err THEN wins[i]
                 ELSE [ wins[i] EXCEPT !.Panes = parsed.v ] ]

\* RefreshLayout: the error it returns and the layout it publishes.
refreshLayout(name, m, fail) ==
    IF fail.ls = "failed"
    THEN [ err |-> "failed to list sessions", layout |-> NilLayout ]
    ELSE IF ParseSessions(Output(muxLs(m), fail.ls)).err
    THEN [ err |-> "failed to parse sessions", layout |-> NilLayout ]
    ELSE IF fail.windows = "failed" \/ name \notin DOMAIN m.sess
    THEN [ err |-> "failed to list windows", layout |-> NilLayout ]
    ELSE IF ParseWindows(Output(muxListWindows(m, name), fail.windows)).err
    THEN [ err |-> "failed to parse windows", layout |-> NilLayout ]
    ELSE
    LET sessions == markActive(ParseSessions(muxLs(m)).v, name)
        isActive(x) == x.Active
        active   == SelectSeq(sessions, isActive)
        windows  == withPanes(ParseWindows(muxListWindows(m, name)).v, name, m, fail)
    IN  [ err    |-> "",
          layout |-> [ SessionID    |-> IF Len(active) > 0
                                        THEN active[Len(active)].ID ELSE "",
                       SessionName  |-> name,
                       Sessions     |-> sessions,
                       Windows      |-> windows,
                       ActiveWinID  |-> LastActive(windows).ID,
                       ActivePaneID |-> LastActiveWithPanes(windows) ] ]

\* ------------------------------------------------------------------ state
VARIABLES
    authRateLimiter,    \* the process-wide rateLimiter
    now,                \* the clock
    result,             \* what the last limiter operation returned or answered
    handlers,           \* the requests in wrapBasicAuth's handler, each with its locals
    mux,                \* the psmux server
    sessionName,        \* Controller.sessionName
    layoutCache,        \* Controller.layoutCache
    closeChan,          \* Controller.closeChan: "open" or "closed"
    panicked,           \* a run-time panic has ended the program
    faults,             \* subprocess calls that failed for reasons of their own
    ctlResult,          \* what the last step of the Controller or of another
                        \* client was, and what it returned
    heap,               \* the Layout objects RefreshLayout has allocated, by address
    cachePtr,           \* Controller.layoutCache as an address, 0 for nil
    refresher,          \* the RefreshLayout call in progress: position and locals
    got,                \* the address the last GetLayout returned, 0 for nil
    published,          \* history: the addresses layoutCache has held
    psmuxCtrl,          \* WebTTY.psmuxCtrl: "nil" or "set"
    tmuxCtrl,           \* WebTTY.tmuxCtrl: "nil" or "set"
    ttyResult,          \* the last message the WebTTY handled, what the handler
                        \* did and what it returned
    lcmd,               \* the LocalCommand: its process, its wait goroutine and
                        \* its ptyClosed channel
    closers,            \* the calls of LocalCommand.Close, each with its locals
    lcmdNow,            \* the clock of the LocalCommand's timers
    pure                \* the last call of a function without state: its name,
                        \* its input and what it returned

rlVars == << authRateLimiter, now, result, handlers >>
heapVars == << heap, cachePtr, refresher, got, published >>
ctlVars == << mux, sessionName, layoutCache, closeChan, panicked, faults, ctlResult,
              heap, cachePtr, refresher, got, published >>
ttyVars == << psmuxCtrl, tmuxCtrl, ttyResult >>
lcmdVars == << lcmd, closers, lcmdNow >>
bridgeVars == << ttyVars, lcmdVars, pure >>
vars == << authRateLimiter, now, result, handlers,
           mux, sessionName, layoutCache, closeChan, panicked, faults, ctlResult,
           heap, cachePtr, refresher, got, published,
           psmuxCtrl, tmuxCtrl, ttyResult, lcmd, closers, lcmdNow, pure >>

\* What the last Controller operation was called with, and what it returned.
NoCtlResult == [ op |-> "", arg |-> << >>, err |-> "", calls |-> << >> ]

\* No message has been handled.
NoTtyResult ==
    [ handler |-> "", msgType |-> "", err |-> "", events |-> << >> ]

\* No LocalCommand has been made.
NoCommand == [ made |-> FALSE ]

\* A call of Close that has not been made.
NotCalled == [ pc |-> "idle" ]

\* No function has been called.
NoPure == [ fn |-> "" ]

\* The addresses of Layout objects.
Addrs == 1..MaxLayouts

\* &Layout{SessionName: name}: every other field has its zero value.
newLayout(name) ==
    [ SessionID |-> "", SessionName |-> name, Sessions |-> << >>,
      Windows |-> << >>, ActiveWinID |-> << >>, ActivePaneID |-> << >> ]

\* No RefreshLayout call is in progress.
NotRefreshing ==
    [ pc |-> "idle", layout |-> 0, windows |-> << >>, k |-> 0, calls |-> << >> ]

\* NewController(DefaultSession); the server runs no session yet.
Init ==
    /\ authRateLimiter = newRateLimiter
    /\ now = StartTime
    /\ result = NoResult
    /\ handlers = [ h \in 1..MaxHandlers |-> NoRequest ]
    /\ mux = [ client |-> DefaultSession, sess |-> << >> ]
    /\ sessionName = DefaultSession
    /\ layoutCache = NilLayout
    /\ closeChan = "open"
    /\ panicked = FALSE
    /\ faults = 0
    /\ ctlResult = NoCtlResult
    /\ heap = [ a \in Addrs |-> NilLayout ]
    /\ cachePtr = 0
    /\ refresher = NotRefreshing
    /\ got = 0
    /\ published = {}
    /\ psmuxCtrl = "nil"
    /\ tmuxCtrl = "nil"
    /\ ttyResult = NoTtyResult
    /\ lcmd = NoCommand
    /\ closers = [ i \in 1..MaxClosers |-> NotCalled ]
    /\ lcmdNow = 0
    /\ pure = NoPure

FailCountOf(rl, ip) ==
    IF ip \in DOMAIN rl.attempts THEN rl.attempts[ip].failCount ELSE 0

\* time passes
TickTo(instants) ==
    /\ \E t \in instants : t > now /\ now' = t
    /\ result' = [ NoResult EXCEPT !.op = "tick" ]
    /\ UNCHANGED << authRateLimiter, handlers, ctlVars, bridgeVars >>

\* a call of recordFailure, with room for maxCount failures of one source
\* and maxLen failures in the window
RecordFailureOf(ips, maxCount, maxLen) ==
    \E ip \in ips :
        /\ FailCountOf(authRateLimiter, ip) < maxCount
        /\ Len(authRateLimiter.globalFailures) < maxLen
        /\ authRateLimiter' = recordFailure(authRateLimiter, ip, now)
        /\ result' = [ NoResult EXCEPT !.op = "recordFailure", !.ip = ip, !.at = now ]
        /\ UNCHANGED << now, handlers, ctlVars, bridgeVars >>

\* a request served by the handler
ServeOf(requests, maxCount, maxLen) ==
    \E r \in requests :
        \E out \in { wrapBasicAuth(authRateLimiter, r, now) } :
            /\ (out.resp.compared /\ ~ out.resp.served) =>
                   /\ FailCountOf(authRateLimiter, out.resp.ip) < maxCount
                   /\ Len(authRateLimiter.globalFailures) < maxLen
            /\ authRateLimiter' = out.rl
            /\ result' = out.resp
            /\ UNCHANGED << now, handlers, ctlVars, bridgeVars >>

Tick == TickTo(ClockInstants)

RecordFailure == RecordFailureOf(IPs, MaxFailCount, MaxWindow)

RecordSuccess ==
    \E ip \in IPs :
        /\ authRateLimiter' = recordSuccess(authRateLimiter, ip)
        /\ result' = [ NoResult EXCEPT !.op = "recordSuccess", !.ip = ip, !.at = now ]
        /\ UNCHANGED << now, handlers, ctlVars, bridgeVars >>

CheckLocked ==
    \E ip \in IPs :
        LET chk == checkLocked(authRateLimiter, ip, now)
        IN  /\ result' = [ NoResult EXCEPT !.op = "checkLocked", !.ip = ip, !.at = now,
                                           !.locked = chk.locked,
                                           !.remaining = chk.remaining,
                                           !.reason = chk.reason ]
            /\ UNCHANGED << authRateLimiter, now, handlers, ctlVars, bridgeVars >>

Cleanup ==
    /\ authRateLimiter' = cleanup(authRateLimiter, now)
    /\ result' = [ NoResult EXCEPT !.op = "cleanup", !.at = now ]
    /\ UNCHANGED << now, handlers, ctlVars, bridgeVars >>

WrapBasicAuth == ServeOf(Requests, MaxFailCount, MaxWindow)

Next ==
    \/ Tick
    \/ RecordFailure
    \/ RecordSuccess
    \/ CheckLocked
    \/ Cleanup
    \/ WrapBasicAuth

Spec == Init /\ [][Next]_vars

\* ------------------------------------------------- a burst from one source
BurstTick == TickTo(BurstInstants)

BurstFailure == RecordFailureOf(BurstIPs, MaxBurst, MaxBurst)

BurstServe == ServeOf(BurstRequests, MaxBurst, MaxBurst)

NextBurst ==
    \/ BurstTick
    \/ BurstFailure
    \/ BurstServe
    \/ CheckLocked

SpecBurst == Init /\ [][NextBurst]_vars

\* ------------------------------------- failures across the global window
WindowTick == TickTo(WindowInstants)

WindowFailure == RecordFailureOf(BurstIPs, MaxBurst, MaxBurst)

NextWindow ==
    \/ WindowTick
    \/ WindowFailure

SpecWindow == Init /\ [][NextWindow]_vars

\* ------------------------------------------------ the periodic cleanup
CleanupTick == TickTo(CleanupInstants)

NextCleanup ==
    \/ CleanupTick
    \/ RecordFailure
    \/ RecordSuccess
    \/ Cleanup

SpecCleanup == Init /\ [][NextCleanup]_vars

\* ------------------------------------------------- concurrent handlers
\* net/http runs the handler of each request on a goroutine of its own.  The
\* limiter's mutex makes checkLocked, recordFailure and recordSuccess atomic
\* each; between the lock check of a request and the recording of its
\* outcome the other handlers run.
ConcurrentTick == TickTo(BurstInstants)

\* wrapBasicAuth up to the lock check: a locked source is answered at once.
HandlerChecks ==
    \E h \in 1..MaxHandlers, r \in ConcurrentRequests :
        \E chk \in { checkLocked(authRateLimiter, clientIP[r], now) } :
            /\ handlers[h].pc = "idle"
            /\ handlers' = [ handlers EXCEPT ![h] =
                               IF chk.locked THEN NoRequest
                               ELSE [ pc |-> "checked", r |-> r ] ]
            /\ result' = IF chk.locked THEN tooManyRequests(r, chk, now)
                         ELSE [ NoResult EXCEPT !.op = "checkLocked", !.ip = clientIP[r],
                                                !.at = now ]
            /\ UNCHANGED << authRateLimiter, now, ctlVars, bridgeVars >>

\* wrapBasicAuth after the lock check.
HandlerAuthenticates ==
    \E h \in 1..MaxHandlers :
        /\ handlers[h].pc = "checked"
        /\ \E out \in { authenticate(authRateLimiter, handlers[h].r, now) } :
               /\ (out.resp.compared /\ ~ out.resp.served) =>
                      /\ FailCountOf(authRateLimiter, out.resp.ip) < MaxRelock
                      /\ Len(authRateLimiter.globalFailures) < MaxRelock
               /\ authRateLimiter' = out.rl
               /\ result' = out.resp
        /\ handlers' = [ handlers EXCEPT ![h] = NoRequest ]
        /\ UNCHANGED << now, ctlVars, bridgeVars >>

NextConcurrent ==
    \/ ConcurrentTick
    \/ HandlerChecks
    \/ HandlerAuthenticates

SpecConcurrent == Init /\ [][NextConcurrent]_vars

\* ------------------------------------------- requests one at a time
\* Many clients guess, each request handled from its lock check to the
\* recording of its outcome before the next one begins.  A client stops
\* before the failure that would lock its own address, so that the lock of
\* a source never stands in the way of the global window; the clients take
\* their turns in the order of their addresses.
\* The second instant is the one at which a global lock of two minutes set
\* at the first expires, the failures of the first still in the window.
SequentialTick == TickTo(BurstInstants)

Guessing(rl, k) == FailCountOf(rl, SourceAddr(k)) < ipLockoutRules[1].attempts - 1

SequentialServe ==
    \E k \in 0..(MaxSources - 1) :
        /\ Guessing(authRateLimiter, k)
        /\ \A j \in 0..(k - 1) : ~ Guessing(authRateLimiter, j)
        /\ \E out \in { wrapBasicAuth(authRateLimiter, GuessOf(k), now) } :
               /\ authRateLimiter' = out.rl
               /\ result' = out.resp
        /\ UNCHANGED << now, handlers, ctlVars, bridgeVars >>

NextSequential ==
    \/ SequentialTick
    \/ SequentialServe

SpecSequential == Init /\ [][NextSequential]_vars

\* ------------------------------------------ failures across a lock expiry
RelockTick == TickTo(RelockInstants)

RelockFailure == RecordFailureOf(IPs, MaxRelock, MaxRelock)

NextRelock ==
    \/ RelockTick
    \/ RelockFailure
    \/ RecordSuccess
    \/ Cleanup

SpecRelock == Init /\ [][NextRelock]_vars

\* ------------------------------------------------------------- controller
\* The refresh replacing the cache also when it fails.
CacheAfterAlways(name, m, fail) == refreshLayout(name, m, fail).layout

\* The refresh a successful operation ends with: the cache is replaced when
\* the refresh succeeds and kept when it fails.
CacheAfter(name, m, fail) ==
    LET refreshed == refreshLayout(name, m, fail)
    IN  IF refreshed.err = "" THEN refreshed.layout ELSE layoutCache

\* The listing failures a refresh may meet: none, or one more fault.
FailuresNow ==
    IF faults < MaxFaults THEN RefreshFailures ELSE { NoFailures }

Faulted(fail) == IF fail = NoFailures THEN faults ELSE faults + 1

\* A subprocess call, the target its -t names, and what it came to.
Call(cmd, target, out) == [ cmd |-> cmd, target |-> target, out |-> out ]

\* The refresh left out: no listing call is issued.
refreshCallsSkipped(name, m, fail) == << >>

\* The listing calls one RefreshLayout issues: ls; list-windows unless the
\* session listing ended the refresh; list-panes for every window listed.
refreshCalls(name, m, fail) ==
    IF fail.ls # "ok" THEN << Call("ls", << >>, fail.ls) >>
    ELSE IF name \notin DOMAIN m.sess
    THEN << Call("ls", << >>, "ok"), Call("list-windows", << name >>, "failed") >>
    ELSE IF fail.windows # "ok"
    THEN << Call("ls", << >>, "ok"), Call("list-windows", << name >>, fail.windows) >>
    ELSE << Call("ls", << >>, "ok"), Call("list-windows", << name >>, "ok") >>
         \o [ i \in 1..Len(m.sess[name]) |->
                Call("list-panes", << name, m.sess[name][i].index >>,
                     fail.panes[m.sess[name][i].index]) ]

\* The operation refreshing the layout also when its call has failed.
mutatingOpRefreshing(cmd, target, can, after, name, callFails, fail) ==
    IF ~ can \/ callFails
    THEN [ err         |-> "psmux command failed",
           mux         |-> mux,
           sessionName |-> sessionName,
           layoutCache |-> CacheAfter(sessionName, mux, fail),
           calls       |-> << Call(cmd, target, "failed") >>
                           \o refreshCalls(sessionName, mux, fail) ]
    ELSE [ err         |-> "",
           mux         |-> after,
           sessionName |-> name,
           layoutCache |-> CacheAfter(name, after, fail),
           calls       |-> << Call(cmd, target, "ok") >> \o refreshCalls(name, after, fail) ]

\* One of SelectPane .. NewWindow: the mutating call; when it fails, its
\* error is returned; when it succeeds, the target is set (SwitchSession)
\* and RefreshLayout runs, whose error is dropped.
mutatingOp(cmd, target, can, after, name, callFails, fail) ==
    IF ~ can \/ callFails
    THEN [ err         |-> "psmux command failed",
           mux         |-> mux,
           sessionName |-> sessionName,
           layoutCache |-> layoutCache,
           calls       |-> << Call(cmd, target, "failed") >> ]
    ELSE [ err         |-> "",
           mux         |-> after,
           sessionName |-> name,
           layoutCache |-> CacheAfter(name, after, fail),
           calls       |-> << Call(cmd, target, "ok") >> \o refreshCalls(name, after, fail) ]

\* The call fails when its target is missing, and may fail for reasons of
\* its own.
MutatingOp(op, arg, cmd, target, can, after, name) ==
    /\ ~ panicked
    /\ \E callFails \in { FALSE } \cup { f \in { TRUE } : can /\ faults < MaxFaults } :
       \E fail \in IF can /\ ~ callFails THEN FailuresNow ELSE { NoFailures } :
       \E out \in { mutatingOp(cmd, target, can, after, name, callFails, fail) } :
              /\ mux' = out.mux
              /\ sessionName' = out.sessionName
              /\ layoutCache' = out.layoutCache
              /\ faults' = IF callFails THEN faults + 1 ELSE Faulted(fail)
              /\ ctlResult' = [ op |-> op, arg |-> arg, err |-> out.err,
                                calls |-> out.calls ]
    /\ UNCHANGED << closeChan, panicked, heapVars, rlVars, bridgeVars >>

SelectPane ==
    \E n \in 0..MaxPaneId :
        MutatingOp("SelectPane", PaneID(n), "select-pane", PaneID(n),
                   muxCanSelectPane(mux, n), muxSelectPane(mux, n), sessionName)

SelectWindow ==
    \E n \in 0..(MaxWindows - 1) :
        MutatingOp("SelectWindow", WinID(n), "select-window", WinID(n),
                   muxCanSelectWindow(mux, n), muxSelectWindow(mux, n), sessionName)

\* SwitchSession leaving the target session name as it was.
SwitchSessionKeepingName ==
    \E s \in Range(SessionNames) :
        MutatingOp("SwitchSession", << s >>, "switch-client", << s >>,
                   muxCanSwitchClient(mux, s), muxSwitchClient(mux, s), sessionName)

SwitchSession ==
    \E s \in Range(SessionNames) :
        MutatingOp("SwitchSession", << s >>, "switch-client", << s >>,
                   muxCanSwitchClient(mux, s), muxSwitchClient(mux, s), s)

SplitPane ==
    MutatingOp("SplitPane", << >>, "split-window", << sessionName >>,
               muxCanSplit(mux, sessionName), muxSplit(mux, sessionName), sessionName)

ClosePane ==
    \E n \in 0..MaxPaneId :
        MutatingOp("ClosePane", PaneID(n), "kill-pane", PaneID(n),
                   muxCanKillPane(mux, n), muxKillPane(mux, n), sessionName)

NewWindow ==
    MutatingOp("NewWindow", << >>, "new-window", << sessionName >>,
               muxCanNewWindow(mux, sessionName), muxNewWindow(mux, sessionName),
               sessionName)

RefreshLayout ==
    /\ ~ panicked
    /\ \E fail \in FailuresNow :
          /\ layoutCache' = CacheAfter(sessionName, mux, fail)
          /\ faults' = Faulted(fail)
          /\ ctlResult' = [ op |-> "RefreshLayout", arg |-> << >>,
                            err |-> refreshLayout(sessionName, mux, fail).err,
                            calls |-> refreshCalls(sessionName, mux, fail) ]
    /\ UNCHANGED << mux, sessionName, closeChan, panicked, heapVars, rlVars, bridgeVars >>

\* Start creating the session whatever the probe has said.
ensureCallsAlwaysCreating(name, probed, created) ==
    << Call("has-session", << name >>, IF probed THEN "ok" ELSE "failed"),
       Call("new-session", << name >>, IF created THEN "ok" ELSE "failed") >>

\* The calls Start ensures the session with: the probe and, when the probe
\* has failed, the creation.
ensureCalls(name, probed, created) ==
    IF probed THEN << Call("has-session", << name >>, "ok") >>
    ELSE << Call("has-session", << name >>, "failed"),
            Call("new-session", << name >>, IF created THEN "ok" ELSE "failed") >>

\* Start: probe the session, create it when the probe fails, refresh.  The
\* probe fails when the session is missing, the creation when it exists,
\* and either may fail for reasons of its own.
Start ==
    /\ ~ panicked
    /\ \/ /\ muxHasSession(mux, sessionName) \/ muxCanNewSession(mux, sessionName)
          /\ faults < MaxFaults
          /\ faults' = faults + 1
          /\ ctlResult' = [ op |-> "Start", arg |-> << >>,
                            err |-> "failed to create psmux session",
                            calls |-> ensureCalls(sessionName, FALSE, FALSE) ]
          /\ UNCHANGED << mux, layoutCache >>
       \/ /\ ~ muxHasSession(mux, sessionName) /\ ~ muxCanNewSession(mux, sessionName)
          /\ ctlResult' = [ op |-> "Start", arg |-> << >>,
                            err |-> "failed to create psmux session",
                            calls |-> ensureCalls(sessionName, FALSE, FALSE) ]
          /\ UNCHANGED << mux, layoutCache, faults >>
       \/ \E after \in { m \in { mux } : muxHasSession(mux, sessionName) }
                       \cup { muxNewSession(mux, s) :
                                s \in { x \in { sessionName } : muxCanNewSession(mux, x) } } :
             \E fail \in FailuresNow :
                /\ mux' = after
                /\ layoutCache' = CacheAfter(sessionName, after, fail)
                /\ faults' = Faulted(fail)
                /\ ctlResult' =
                     [ op |-> "Start", arg |-> << >>,
                       err |-> IF refreshLayout(sessionName, after, fail).err = "" THEN ""
                               ELSE "failed to get initial layout",
                       calls |-> ensureCalls(sessionName,
                                             muxHasSession(mux, sessionName), TRUE)
                                 \o refreshCalls(sessionName, after, fail) ]
    /\ UNCHANGED << sessionName, closeChan, panicked, heapVars, rlVars, bridgeVars >>

\* Stop: close(c.closeChan); closing a closed channel panics.
Stop ==
    /\ ~ panicked
    /\ IF closeChan = "closed"
       THEN /\ panicked' = TRUE
            /\ ctlResult' = [ op |-> "Stop", arg |-> << >>,
                              err |-> "panic: close of closed channel",
                              calls |-> << >> ]
            /\ UNCHANGED closeChan
       ELSE /\ closeChan' = "closed"
            /\ ctlResult' = [ op |-> "Stop", arg |-> << >>, err |-> "", calls |-> << >> ]
            /\ UNCHANGED panicked
    /\ UNCHANGED << mux, sessionName, layoutCache, faults, heapVars, rlVars, bridgeVars >>

\* Another client of the server creates a session.
OtherClient ==
    /\ ~ panicked
    /\ \E s \in Range(SessionNames) :
          /\ muxCanNewSession(mux, s)
          /\ mux' = muxNewSession(mux, s)
    /\ ctlResult' = [ NoCtlResult EXCEPT !.op = "other client" ]
    /\ UNCHANGED << sessionName, layoutCache, closeChan, panicked, faults, heapVars,
                    rlVars, bridgeVars >>

NextCtl ==
    \/ Start
    \/ RefreshLayout
    \/ SelectPane
    \/ SelectWindow
    \/ SwitchSession
    \/ SplitPane
    \/ ClosePane
    \/ NewWindow
    \/ OtherClient

SpecCtl == Init /\ [][NextCtl]_vars

\* The controller with its shutdown.
NextLife ==
    \/ NextCtl
    \/ Stop

SpecLife == Init /\ [][NextLife]_vars

\* ----------------------------------- RefreshLayout step by step, and readers
\* The statements of RefreshLayout in their order: the session listing and
\* loop, the window listing, the window loop, layout.Windows = windows, and
\* c.layoutCache = layout under the lock.  With the cache set first.
stepAfterPublishFirst ==
    [ ls |-> "publish", publish |-> "windows", windows |-> "panes",
      panes |-> "assign", assign |-> "idle" ]

stepAfter ==
    [ ls |-> "windows", windows |-> "panes", panes |-> "assign",
      assign |-> "publish", publish |-> "idle" ]

Deref(h, a) == IF a = 0 THEN NilLayout ELSE h[a]

HasFreeAddr == \E a \in Addrs : heap[a] = NilLayout
FreeAddr == CHOOSE a \in Addrs : heap[a] = NilLayout /\ \A b \in 1..(a - 1) : heap[b] # NilLayout

\* What a refresh step leaves alone.
RefreshFrame ==
    /\ layoutCache' = Deref(heap', cachePtr')
    /\ UNCHANGED << mux, sessionName, closeChan, panicked, faults, got, rlVars, bridgeVars >>

\* Lines 59-79: ls, the parse, the new Layout, the loop over the sessions.
RefreshSessions ==
    /\ ~ panicked
    /\ refresher.pc = "idle"
    /\ HasFreeAddr
    /\ LET sessions == markActive(ParseSessions(muxLs(mux)).v, sessionName)
           isActive(x) == x.Active
           active == SelectSeq(sessions, isActive)
       IN  heap' = [ heap EXCEPT ![FreeAddr] =
                       [ newLayout(sessionName) EXCEPT
                           !.SessionID = IF Len(active) > 0
                                         THEN active[Len(active)].ID ELSE "",
                           !.Sessions = sessions ] ]
    /\ refresher' = [ NotRefreshing EXCEPT !.pc = stepAfter["ls"],
                                           !.layout = FreeAddr,
                                           !.calls = << Call("ls", << >>, "ok") >> ]
    /\ ctlResult' = [ NoCtlResult EXCEPT !.op = "RefreshLayout: ls" ]
    /\ UNCHANGED << cachePtr, published >>
    /\ RefreshFrame

\* Lines 81-89: list-windows and the parse; the refresh ends here with an
\* error when the target session is not there.
RefreshWindows ==
    /\ ~ panicked
    /\ refresher.pc = "windows"
    /\ IF sessionName \notin DOMAIN mux.sess
       THEN /\ refresher' = NotRefreshing
            /\ ctlResult' = [ op |-> "RefreshLayout", arg |-> << >>,
                              err |-> "failed to list windows",
                              calls |-> Append(refresher.calls,
                                               Call("list-windows", << sessionName >>,
                                                    "failed")) ]
       ELSE /\ refresher' =
                 [ refresher EXCEPT
                     !.pc = stepAfter["windows"],
                     !.windows = ParseWindows(muxListWindows(mux, sessionName)).v,
                     !.k = 1,
                     !.calls = Append(@, Call("list-windows", << sessionName >>, "ok")) ]
            /\ ctlResult' = [ NoCtlResult EXCEPT !.op = "RefreshLayout: list-windows" ]
    /\ UNCHANGED << heap, cachePtr, published >>
    /\ RefreshFrame

\* The window of the given index is there for list-panes.
WindowListed(m, s, index) ==
    s \in DOMAIN m.sess /\ \E i \in 1..Len(m.sess[s]) : m.sess[s][i].index = index

\* Lines 91-113: one round of the loop over the windows.
RefreshPanes ==
    /\ ~ panicked
    /\ refresher.pc = "panes"
    /\ LET win    == refresher.windows[refresher.k]
           listed == WindowListed(mux, sessionName, win.Index)
           panes  == IF listed
                     THEN ParsePanes(muxListPanes(mux, sessionName, win.Index)).v
                     ELSE << >>
           last   == refresher.k = Len(refresher.windows)
       IN  /\ heap' = [ heap EXCEPT ![refresher.layout] =
                          [ @ EXCEPT
                              !.ActiveWinID = IF win.Active THEN win.ID ELSE @,
                              !.ActivePaneID = IF win.Active /\ Len(panes) > 0
                                               THEN panes[1].ID ELSE @ ] ]
           /\ refresher' =
                 [ refresher EXCEPT
                     !.pc = IF last THEN stepAfter["panes"] ELSE "panes",
                     !.windows[refresher.k].Panes = panes,
                     !.k = @ + 1,
                     !.calls = Append(@, Call("list-panes",
                                              << sessionName, win.Index >>,
                                              IF listed THEN "ok" ELSE "failed")) ]
    /\ ctlResult' = [ NoCtlResult EXCEPT !.op = "RefreshLayout: list-panes" ]
    /\ UNCHANGED << cachePtr, published >>
    /\ RefreshFrame

\* Line 115: layout.Windows = windows.
RefreshAssign ==
    /\ ~ panicked
    /\ refresher.pc = "assign"
    /\ heap' = [ heap EXCEPT ![refresher.layout].Windows = refresher.windows ]
    /\ refresher' = IF stepAfter["assign"] = "idle" THEN NotRefreshing
                    ELSE [ refresher EXCEPT !.pc = stepAfter["assign"] ]
    /\ ctlResult' = IF stepAfter["assign"] = "idle"
                    THEN [ op |-> "RefreshLayout", arg |-> << >>, err |-> "",
                           calls |-> refresher.calls ]
                    ELSE [ NoCtlResult EXCEPT !.op = "RefreshLayout: windows" ]
    /\ UNCHANGED << cachePtr, published >>
    /\ RefreshFrame

\* Lines 117-119: c.layoutCache = layout, under the write lock.
RefreshPublish ==
    /\ ~ panicked
    /\ refresher.pc = "publish"
    /\ cachePtr' = refresher.layout
    /\ published' = published \cup { refresher.layout }
    /\ refresher' = IF stepAfter["publish"] = "idle" THEN NotRefreshing
                    ELSE [ refresher EXCEPT !.pc = stepAfter["publish"] ]
    /\ ctlResult' = IF stepAfter["publish"] = "idle"
                    THEN [ op |-> "RefreshLayout", arg |-> << >>, err |-> "",
                           calls |-> refresher.calls ]
                    ELSE [ NoCtlResult EXCEPT !.op = "RefreshLayout: publish" ]
    /\ UNCHANGED heap
    /\ RefreshFrame

\* GetLayout: the address in the cache, read under the read lock.
GetLayout ==
    /\ ~ panicked
    /\ got' = cachePtr
    /\ ctlResult' = [ NoCtlResult EXCEPT !.op = "GetLayout" ]
    /\ UNCHANGED << mux, sessionName, layoutCache, closeChan, panicked, faults,
                    heap, cachePtr, refresher, published, rlVars, bridgeVars >>

\* Another client of the server splits a window or opens one.
OtherClientSplits ==
    /\ ~ panicked
    /\ \E s \in Range(SessionNames) :
          \/ muxCanSplit(mux, s) /\ mux' = muxSplit(mux, s)
          \/ muxCanNewWindow(mux, s) /\ mux' = muxNewWindow(mux, s)
    /\ ctlResult' = [ NoCtlResult EXCEPT !.op = "other client" ]
    /\ UNCHANGED << sessionName, layoutCache, closeChan, panicked, faults, heapVars,
                    rlVars, bridgeVars >>

NextRefresh ==
    \/ RefreshSessions
    \/ RefreshWindows
    \/ RefreshPanes
    \/ RefreshAssign
    \/ RefreshPublish
    \/ GetLayout
    \/ OtherClient
    \/ OtherClientSplits

SpecRefresh == Init /\ [][NextRefresh]_vars

\* ----------------------------------------------------------------- webtty
\* The tags of the multiplexer messages, client to server.
PsmuxSelectPane == "5"
PsmuxSelectWindow == "6"
PsmuxSplitPane == "7"
PsmuxClosePane == "8"
PsmuxNewWindow == "D"
PsmuxSwitchSession == "E"

\* The tags the tmux variant adds; its other tags are those above.
TmuxCopyMode == "9"
TmuxSendCommand == "A"
TmuxScrollUp == "B"
TmuxScrollDown == "C"

\* Server to client.
PsmuxLayoutUpdate == "7"
TmuxLayoutUpdate == "7"
TmuxModeUpdate == "9"

\* The tags a client may send, Input ("1") among them.
MsgTypes ==
    { "1", PsmuxSelectPane, PsmuxSelectWindow, PsmuxSplitPane, PsmuxClosePane,
      TmuxCopyMode, TmuxSendCommand, TmuxScrollUp, TmuxScrollDown,
      PsmuxNewWindow, PsmuxSwitchSession }

\* The cases of the switch of handlePsmuxMessage: the operation of each tag.
psmuxCases ==
    ( PsmuxSelectPane :> "SelectPane" ) @@ ( PsmuxSelectWindow :> "SelectWindow" )
    @@ ( PsmuxSplitPane :> "SplitPane" ) @@ ( PsmuxClosePane :> "ClosePane" )
    @@ ( PsmuxNewWindow :> "NewWindow" ) @@ ( PsmuxSwitchSession :> "SwitchSession" )

\* The cases of the switch of handleTmuxMessage.
tmuxCases ==
    psmuxCases @@ ( TmuxCopyMode :> "CopyMode" ) @@ ( TmuxScrollUp :> "ScrollUp" )
    @@ ( TmuxScrollDown :> "ScrollDown" )

\* The switch of handleTmuxMessage with a case for every tag isTmuxMessage
\* knows.
casesOfKnownTags(handler) ==
    IF handler = "psmux" THEN psmuxCases
    ELSE tmuxCases @@ ( TmuxSendCommand :> "ScrollUp" )

casesOf(handler) == IF handler = "psmux" THEN psmuxCases ELSE tmuxCases

\* The error of the default case, the tag left out.
unknownType(handler) ==
    IF handler = "psmux" THEN "unknown psmux message type"
    ELSE "unknown tmux message type"

\* The payloads of the shape the protocol gives a tag.
PayloadsOf(op) ==
    CASE op \in { "SelectPane", "ClosePane" } -> { PaneID(n) : n \in 0..MaxPaneId }
      [] op = "SelectWindow"  -> { WinID(n) : n \in 0..(MaxWindows - 1) }
      [] op = "SwitchSession" -> { << s >> : s \in Range(SessionNames) }
      [] op = "SplitPane"     -> { << "h" >>, << "v" >> }
      [] op = "NewWindow"     -> { << >> }
      [] op = "CopyMode"      -> { << "1" >>, << "0" >> }
      [] op \in { "ScrollUp", "ScrollDown" } -> { << "1" >>, << "0" >>, << >> }

\* The message errors.Wrap puts before the error of the operation.
wrapOf(op) ==
    CASE op = "SelectPane"    -> "failed to select pane"
      [] op = "SelectWindow"  -> "failed to select window"
      [] op = "SplitPane"     -> "failed to split pane"
      [] op = "ClosePane"     -> "failed to close pane"
      [] op = "NewWindow"     -> "failed to create new window"
      [] op = "SwitchSession" -> "failed to switch session"
      [] op = "CopyMode"      -> "failed to toggle copy mode"
      [] op \in { "ScrollUp", "ScrollDown" } -> "tmux command failed"

\* The method of the controller a case calls with the payload it was sent.
methodOf(op, payload) ==
    IF op = "CopyMode"
    THEN IF payload = << "1" >> THEN "EnterCopyMode" ELSE "ExitCopyMode"
    ELSE op

\* The call of the Controller's method: what it returns and leaves.
controllerOp(op, payload, callFails, fail) ==
    CASE op = "SelectPane" ->
           mutatingOp("select-pane", payload, muxCanSelectPane(mux, payload[2]),
                      muxSelectPane(mux, payload[2]), sessionName, callFails, fail)
      [] op = "SelectWindow" ->
           mutatingOp("select-window", payload, muxCanSelectWindow(mux, payload[2]),
                      muxSelectWindow(mux, payload[2]), sessionName, callFails, fail)
      [] op = "SwitchSession" ->
           mutatingOp("switch-client", payload, muxCanSwitchClient(mux, payload[1]),
                      muxSwitchClient(mux, payload[1]), payload[1], callFails, fail)
      [] op = "SplitPane" ->
           mutatingOp("split-window", << sessionName >>, muxCanSplit(mux, sessionName),
                      muxSplit(mux, sessionName), sessionName, callFails, fail)
      [] op = "ClosePane" ->
           mutatingOp("kill-pane", payload, muxCanKillPane(mux, payload[2]),
                      muxKillPane(mux, payload[2]), sessionName, callFails, fail)
      [] op = "NewWindow" ->
           mutatingOp("new-window", << sessionName >>, muxCanNewWindow(mux, sessionName),
                      muxNewWindow(mux, sessionName), sessionName, callFails, fail)

\* What a call of the psmux Controller may come to, GetLayout after it
\* included.
psmuxOutcomes(op, payload) ==
    LET calls == { [ callFails |-> FALSE, fail |-> fail ] : fail \in FailuresNow }
                 \cup { [ callFails |-> TRUE, fail |-> NoFailures ] :
                          f \in { g \in { TRUE } : faults < MaxFaults } }
    IN  UNION { { [ err         |-> out.err,
                    mux         |-> out.mux,
                    sessionName |-> out.sessionName,
                    layoutCache |-> out.layoutCache,
                    faults      |-> IF x.callFails THEN faults + 1
                                    ELSE IF out.err = "" THEN Faulted(x.fail)
                                    ELSE faults,
                    calls       |-> out.calls,
                    layout      |-> out.layoutCache ] :
                  out \in { controllerOp(op, payload, x.callFails, x.fail) } } :
                x \in calls }

\* A layout of the tmux controller.
TmuxLayout == [ nil |-> FALSE ]

\* What a call of the tmux controller may come to: the controller is behind
\* an interface, its method returns an error or none and its GetLayout a
\* layout or none.
tmuxOutcomes(op, payload) ==
    { [ err         |-> e,
        mux         |-> mux,
        sessionName |-> sessionName,
        layoutCache |-> layoutCache,
        faults      |-> faults,
        calls       |-> << >>,
        layout      |-> l ] :
      e \in { "", "tmux command failed" },
      l \in { NilLayout, TmuxLayout } }

outcomesOf(handler, op, payload) ==
    IF handler = "psmux" THEN psmuxOutcomes(op, payload) ELSE tmuxOutcomes(op, payload)

\* The check left out: the switch is entered without a controller.
noControllerUnchecked(ctrl) == FALSE

\* wt.psmuxCtrl == nil, wt.tmuxCtrl == nil
noController(ctrl) == ctrl = "nil"

\* SendPsmuxLayout, SendTmuxLayout: nothing is sent while the controller has
\* no layout.
SendLayout(handler, cache) ==
    IF cache = NilLayout THEN << >>
    ELSE << [ ev |-> "send",
              tag |-> IF handler = "psmux" THEN PsmuxLayoutUpdate ELSE TmuxLayoutUpdate,
              data |-> cache ] >>

\* SendTmuxModeUpdate
SendModeUpdate(enter) ==
    << [ ev |-> "send", tag |-> TmuxModeUpdate, data |-> [ InCopyMode |-> enter ] ] >>

\* What a case sends after its operation has returned without error.
sentAfter(handler, op, payload, cache) ==
    IF op = "CopyMode" THEN SendModeUpdate(payload = << "1" >>)
    ELSE IF op \in { "ScrollUp", "ScrollDown" } THEN << >>
    ELSE SendLayout(handler, cache)

\* The controller has not been called.
NoCall == [ NoCtlResult EXCEPT !.op = "none" ]

\* handlePsmuxMessage, handleTmuxMessage: without a controller the message
\* is dropped and a tag without a case is an error, the payload not being
\* read; a case calls its operation with the payload and, the operation
\* having returned without error, sends its update.
HandleMessage(handler, ctrl) ==
    /\ ~ panicked
    /\ \E msgType \in MsgTypes :
          IF noController(ctrl)
          THEN /\ ttyResult' = [ handler |-> handler, msgType |-> msgType,
                                err |-> "", events |-> << >> ]
               /\ ctlResult' = NoCall
               /\ UNCHANGED << mux, sessionName, layoutCache, faults >>
          ELSE IF msgType \notin DOMAIN casesOf(handler)
          THEN /\ ttyResult' = [ handler |-> handler, msgType |-> msgType,
                                err |-> unknownType(handler), events |-> << >> ]
               /\ ctlResult' = NoCall
               /\ UNCHANGED << mux, sessionName, layoutCache, faults >>
          ELSE \E payload \in PayloadsOf(casesOf(handler)[msgType]) :
               \E out \in outcomesOf(handler, casesOf(handler)[msgType], payload) :
                  LET op == casesOf(handler)[msgType]
                  IN  /\ mux' = out.mux
                      /\ sessionName' = out.sessionName
                      /\ layoutCache' = out.layoutCache
                      /\ faults' = out.faults
                      /\ ctlResult' = [ op |-> methodOf(op, payload), arg |-> payload,
                                        err |-> out.err, calls |-> out.calls ]
                      /\ ttyResult' =
                           [ handler |-> handler, msgType |-> msgType,
                             err |-> IF out.err = "" THEN "" ELSE wrapOf(op),
                             events |->
                               << [ ev |-> "call", op |-> methodOf(op, payload),
                                    err |-> out.err ] >>
                               \o IF out.err = ""
                                  THEN sentAfter(handler, op, payload, out.layout)
                                  ELSE << >> ]
    /\ UNCHANGED << closeChan, panicked, heapVars, rlVars, psmuxCtrl, tmuxCtrl,
                    lcmdVars, pure >>

HandlePsmuxMessage == HandleMessage("psmux", psmuxCtrl)

HandleTmuxMessage == HandleMessage("tmux", tmuxCtrl)

\* SetPsmuxController, SetTmuxController: a session has one controller at
\* most.
SetPsmuxController ==
    /\ ~ panicked
    /\ psmuxCtrl = "nil" /\ tmuxCtrl = "nil"
    /\ psmuxCtrl' = "set"
    /\ UNCHANGED << tmuxCtrl, ttyResult, ctlVars, rlVars, lcmdVars, pure >>

SetTmuxController ==
    /\ ~ panicked
    /\ psmuxCtrl = "nil" /\ tmuxCtrl = "nil"
    /\ tmuxCtrl' = "set"
    /\ UNCHANGED << psmuxCtrl, ttyResult, ctlVars, rlVars, lcmdVars, pure >>

\* The controller is started when the session is set up, before the first
\* message is handled.
StartSession ==
    /\ ttyResult = NoTtyResult
    /\ Start

\* A session: its controller is started and attached, in either order, and
\* its messages are handled, while other clients use the server.
NextTty ==
    \/ StartSession
    \/ OtherClient
    \/ SetPsmuxController
    \/ SetTmuxController
    \/ HandlePsmuxMessage
    \/ HandleTmuxMessage

SpecTty == Init /\ [][NextTty]_vars

\* ------------------------------------------------------------ localcommand
\* A timer that never fires.
Never == -1

\* The close timeouts a LocalCommand is made with: negative, none, some.
CloseTimeouts == { -1, 0, MaxCloseTimeout }

\* The timer armed whatever the timeout.
closeTimeoutCPositive(closeTimeout, t) ==
    IF closeTimeout > 0 THEN t + closeTimeout ELSE Never

\* closeTimeoutC: time.After(closeTimeout) for a timeout that is not
\* negative, a channel nothing is sent on otherwise.  The timer is given as
\* the instant it fires.
closeTimeoutC(closeTimeout, t) ==
    IF closeTimeout >= 0 THEN t + closeTimeout ELSE Never

\* Close signalling the closed event itself.
requestCloseSignalling(l) ==
    [ l EXCEPT !.cptyCloses = @ + 1, !.ptyClosed = @ + 1 ]

\* lcmd.cpty.Close(), the first statement of Close.
requestClose(l) == [ l EXCEPT !.cptyCloses = @ + 1 ]

\* strings.ToUpper
ToUpper(s) ==
    [ i \in 1..Len(s) |->
        IF \E k \in 1..26 : LowerCase[k] = s[i]
        THEN UpperCase[CHOOSE k \in 1..26 : LowerCase[k] = s[i]]
        ELSE s[i] ]

\* strings.Replace(s, old, new, -1) for old and new of one character
Replace(s, old, new) == [ i \in 1..Len(s) |-> IF s[i] = old THEN new ELSE s[i] ]

\* strings.Join
RECURSIVE Join(_, _)
Join(elems, sep) ==
    IF elems = << >> THEN << >>
    ELSE IF Len(elems) = 1 THEN elems[1]
    ELSE elems[1] \o sep \o Join(Tail(elems), sep)

\* The variable made of one header.
HttpPrefix == << "H", "T", "T", "P", "_" >>
headerVariable(key, values) ==
    HttpPrefix \o Replace(ToUpper(key), "-", "_") \o << "=" >> \o Join(values, << "," >>)

\* The environment of the process: the inherited one, the terminal type,
\* and a variable for each header in the order the map is ranged over.
TermVariable == << "T", "E", "R", "M", "=", "x", "t", "e", "r", "m", "-", "2", "5", "6", "c", "o", "l", "o", "r" >>
environmentOf(environ, headers, order) ==
    environ \o << TermVariable >>
            \o [ i \in 1..Len(order) |-> headerVariable(order[i], headers[order[i]]) ]

\* Inherited environments, and the header maps a caller may pass: up to
\* MaxHeaders names, each with no, one or two values.
Environs == { << >>, << << "H", "T", "T", "P", "_", "X", "_", "A", "=", "0" >> >> }
HeaderNames ==
    { << "X", "-", "A" >>, << "x", "-", "a" >>, << "X", "_", "A" >>,
      << "X", ".", "A" >>, << "H", "o", "s", "t" >> }
HeaderValues == { << >>, << << "1" >> >>, << << "1" >>, << "b" >> >> }
HeaderMaps ==
    UNION { [ names -> HeaderValues ] :
                names \in { n \in SUBSET HeaderNames : Cardinality(n) <= MaxHeaders } }
NoHeaders == << >>

\* The orders a range over the map may take.
OrdersOf(headers) ==
    { o \in [ 1..Cardinality(DOMAIN headers) -> DOMAIN headers ] :
          \A i, j \in DOMAIN o : i # j => o[i] # o[j] }

\* New: the environment is put together, the process started with it, the
\* timeout set by the options, and the goroutine waiting for the process
\* started.
NewOf(headerMaps) ==
    /\ ~ lcmd.made
    /\ \E t \in CloseTimeouts :
          lcmd' = [ made         |-> TRUE,
                    closeTimeout |-> t,
                    process      |-> "running",
                    waiter       |-> "waiting",
                    cptyCloses   |-> 0,
                    ptyClosed    |-> 0,
                    panicked     |-> FALSE ]
    /\ \E environ \in Environs, headers \in headerMaps :
          \E order \in OrdersOf(headers) :
              pure' = [ fn |-> "New", environ |-> environ, headers |-> headers,
                        env |-> environmentOf(environ, headers, order) ]
    /\ UNCHANGED << closers, lcmdNow, ttyVars, ctlVars, rlVars >>

NewCommand == NewOf({ NoHeaders })

NewWithHeaders == NewOf(HeaderMaps)

\* The process exits, of itself or because its terminal has been closed.
ProcessExit ==
    /\ lcmd.made /\ ~ lcmd.panicked
    /\ lcmd.process = "running"
    /\ lcmd' = [ lcmd EXCEPT !.process = "exited" ]
    /\ UNCHANGED << closers, lcmdNow, pure, ttyVars, ctlVars, rlVars >>

\* lcmd.cpty.Wait returns in the goroutine: the process has exited.
WaitReturns ==
    /\ lcmd.made /\ ~ lcmd.panicked
    /\ lcmd.waiter = "waiting" /\ lcmd.process = "exited"
    /\ lcmd' = [ lcmd EXCEPT !.waiter = "returned" ]
    /\ UNCHANGED << closers, lcmdNow, pure, ttyVars, ctlVars, rlVars >>

\* The deferred function of the goroutine: lcmd.cpty.Close() and
\* close(lcmd.ptyClosed); closing a closed channel panics.
WaitDeferred ==
    /\ lcmd.made /\ ~ lcmd.panicked
    /\ lcmd.waiter = "returned"
    /\ lcmd' = IF lcmd.ptyClosed > 0
               THEN [ lcmd EXCEPT !.cptyCloses = @ + 1, !.panicked = TRUE ]
               ELSE [ lcmd EXCEPT !.cptyCloses = @ + 1, !.ptyClosed = @ + 1,
                                  !.waiter = "done" ]
    /\ UNCHANGED << closers, lcmdNow, pure, ttyVars, ctlVars, rlVars >>

\* Close is called: lcmd.cpty.Close(), then the select is entered with the
\* channel closeTimeoutC returns.
CloseCalled ==
    /\ lcmd.made /\ ~ lcmd.panicked
    /\ \E i \in 1..MaxClosers :
          /\ closers[i].pc = "idle"
          /\ lcmd' = requestClose(lcmd)
          /\ closers' = [ closers EXCEPT ![i] =
                            [ pc        |-> "select",
                              process   |-> lcmd.process,
                              startedAt |-> lcmdNow,
                              timer     |-> closeTimeoutC(lcmd.closeTimeout, lcmdNow) ] ]
    /\ UNCHANGED << lcmdNow, pure, ttyVars, ctlVars, rlVars >>

\* case <-lcmd.ptyClosed: return nil
CloseSeesClosed ==
    /\ lcmd.made /\ ~ lcmd.panicked
    /\ \E i \in 1..MaxClosers :
          /\ closers[i].pc = "select"
          /\ lcmd.ptyClosed > 0
          /\ closers' = [ closers EXCEPT ![i] =
                            [ pc |-> "returned", process |-> closers[i].process,
                              startedAt |-> closers[i].startedAt,
                              timer |-> closers[i].timer,
                              by |-> "ptyClosed", err |-> "", returnedAt |-> lcmdNow ] ]
    /\ UNCHANGED << lcmd, lcmdNow, pure, ttyVars, ctlVars, rlVars >>

\* case <-lcmd.closeTimeoutC(): return nil
CloseTimesOut ==
    /\ lcmd.made /\ ~ lcmd.panicked
    /\ \E i \in 1..MaxClosers :
          /\ closers[i].pc = "select"
          /\ closers[i].timer # Never /\ lcmdNow >= closers[i].timer
          /\ closers' = [ closers EXCEPT ![i] =
                            [ pc |-> "returned", process |-> closers[i].process,
                              startedAt |-> closers[i].startedAt,
                              timer |-> closers[i].timer,
                              by |-> "timeout", err |-> "", returnedAt |-> lcmdNow ] ]
    /\ UNCHANGED << lcmd, lcmdNow, pure, ttyVars, ctlVars, rlVars >>

\* Time passes, unless a select has a case that is ready: a timer that is
\* due has fired, and a select with a ready case has returned.
LcmdTick ==
    /\ lcmd.made /\ ~ lcmd.panicked
    /\ lcmdNow < MaxClock
    /\ \A i \in 1..MaxClosers :
          closers[i].pc = "select" =>
              /\ lcmd.ptyClosed = 0
              /\ closers[i].timer = Never \/ lcmdNow < closers[i].timer
    /\ lcmdNow' = lcmdNow + 1
    /\ UNCHANGED << lcmd, closers, pure, ttyVars, ctlVars, rlVars >>

NextClose ==
    \/ NewCommand
    \/ ProcessExit
    \/ WaitReturns
    \/ WaitDeferred
    \/ CloseCalled
    \/ CloseSeesClosed
    \/ CloseTimesOut
    \/ LcmdTick

SpecClose == Init /\ [][NextClose]_vars

\* New alone, with the headers of the caller.
NextNew == NewWithHeaders

SpecNew == Init /\ [][NextNew]_vars

\* ------------------------------------------------------ parser, from text
\* \d, \S and [^)] of the three expressions: the characters of a class, or
\* all characters but them.
IsDigit == [ of |-> Range(Digits), negated |-> FALSE ]
NonSpace == [ of |-> { " ", "\t", "\n", "\r" }, negated |-> TRUE ]
NotParen == [ of |-> { ")" }, negated |-> TRUE ]
InClass(c, class) == (c \in class.of) # class.negated

\* How many characters of s from position i on are of the class: the
\* length a greedy repetition takes.
Span(s, i, class) ==
    CHOOSE n \in 0..(Len(s) - i + 1) :
        /\ \A k \in i..(i + n - 1) : InClass(s[k], class)
        /\ i + n > Len(s) \/ ~ InClass(s[i + n], class)

\* strconv.Atoi of a run of digits
RECURSIVE Atoi(_)
Atoi(ds) ==
    IF ds = << >> THEN 0
    ELSE 10 * Atoi(SubSeq(ds, 1, Len(ds) - 1))
         + (CHOOSE k \in 1..10 : Digits[k] = ds[Len(ds)]) - 1

\* " [WxH]" at position i of line; the position after it, 0 when it does
\* not stand there.
afterSize(line, i) ==
    LET w == Span(line, i + 2, IsDigit)
        x == i + 2 + w
        h == Span(line, x + 1, IsDigit)
    IN  IF /\ HasAt(line, i, << " ", "[" >>)
           /\ w >= 1
           /\ HasAt(line, x, << "x" >>)
           /\ h >= 1
           /\ HasAt(line, x + 1 + h, << "]" >>)
        THEN x + 1 + h + 1
        ELSE 0

\* sessionRegex: ^(\S+): (\d+) windows \(created [^)]+\) \[(\d+)x(\d+)\]
\*               (?: \(attached\))?$
sessionRegex(line) ==
    LET r  == Span(line, 1, NonSpace)
        d  == Span(line, r + 2, IsDigit)
        c0 == r + 2 + d + Len(<< " ", "w", "i", "n", "d", "o", "w", "s", " ", "(", "c", "r", "e", "a", "t", "e", "d", " " >>)
        c  == Span(line, c0, NotParen)
        e  == afterSize(line, c0 + c + 1)
    IN  IF /\ r >= 2
           /\ line[r] = ":"
           /\ HasAt(line, r + 1, << " " >>)
           /\ d >= 1
           /\ HasAt(line, r + 2 + d, << " ", "w", "i", "n", "d", "o", "w", "s", " ", "(", "c", "r", "e", "a", "t", "e", "d", " " >>)
           /\ c >= 1
           /\ HasAt(line, c0 + c, << ")" >>)
           /\ e # 0
           /\ \/ e = Len(line) + 1
              \/ HasAt(line, e, << " ", "(", "a", "t", "t", "a", "c", "h", "e", "d", ")" >>) /\ e + Len(<< " ", "(", "a", "t", "t", "a", "c", "h", "e", "d", ")" >>) = Len(line) + 1
        THEN [ match |-> TRUE,
               name |-> SubSeq(line, 1, r - 1),
               windows |-> Atoi(SubSeq(line, r + 2, r + 1 + d)),
               attached |-> Contains(line, << "(", "a", "t", "t", "a", "c", "h", "e", "d", ")" >>) ]
        ELSE JunkLine

\* windowRegex: ^(\d+): (\S+?)(\*)? \((\d+) panes?\) \[(\d+)x(\d+)\]$
\* The name and the star together are the run up to the next space, and
\* the lazy name leaves the star to the group after it.
windowRegex(line) ==
    LET n  == Span(line, 1, IsDigit)
        r  == Span(line, n + 3, NonSpace)
        s0 == n + 3 + r
        star == r >= 2 /\ line[s0 - 1] = "*"
        d  == Span(line, s0 + 2, IsDigit)
        t  == s0 + 2 + d
        u  == IF HasAt(line, t + Len(<< " ", "p", "a", "n", "e" >>), << "s" >>)
              THEN t + Len(<< " ", "p", "a", "n", "e" >>) + 1 ELSE t + Len(<< " ", "p", "a", "n", "e" >>)
        e  == afterSize(line, u + 1)
    IN  IF /\ n >= 1
           /\ HasAt(line, n + 1, << ":", " " >>)
           /\ r >= 1
           /\ HasAt(line, s0, << " ", "(" >>)
           /\ d >= 1
           /\ HasAt(line, t, << " ", "p", "a", "n", "e" >>)
           /\ HasAt(line, u, << ")" >>)
           /\ e = Len(line) + 1
        THEN [ match |-> TRUE,
               index |-> Atoi(SubSeq(line, 1, n)),
               name |-> SubSeq(line, n + 3, IF star THEN s0 - 2 ELSE s0 - 1),
               star |-> star,
               panes |-> Atoi(SubSeq(line, s0 + 2, t - 1)) ]
        ELSE JunkLine

\* paneRegex: ^(%\d+): \[(\d+)x(\d+)\]   (whatever follows is ignored)
paneRegex(line) ==
    LET n == Span(line, 2, IsDigit)
    IN  IF /\ Len(line) >= 1
           /\ line[1] = "%"
           /\ n >= 1
           /\ HasAt(line, n + 2, << ":" >>)
           /\ afterSize(line, n + 3) # 0
        THEN [ match |-> TRUE, id |-> Atoi(SubSeq(line, 2, n + 1)) ]
        ELSE JunkLine

\* The expression of each parser.
regexOf(parser, line) ==
    CASE parser = "ParseSessions" -> sessionRegex(line)
      [] parser = "ParseWindows" -> windowRegex(line)
      [] parser = "ParsePanes" -> paneRegex(line)

\* The loop of a parser up to the match: the trimmed output is split at
\* the line ends, every line trimmed, and matched unless it is empty.
matchLines(output, parser) ==
    LET split == Split(TrimSpace(output), "\n")
    IN  [ i \in 1..Len(split) |->
            IF TrimSpace(split[i]) = << >> THEN BlankLine
            ELSE regexOf(parser, TrimSpace(split[i])) ]

ParseSessionsOutput(output) == ParseSessions(matchLines(output, "ParseSessions"))
ParseWindowsOutput(output) == ParseWindows(matchLines(output, "ParseWindows"))
ParsePanesOutput(output) == ParsePanes(matchLines(output, "ParsePanes"))

\* Outputs to parse: up to MaxLines lines, each ended by a line end.
SessionLines ==
    { << "m", "a", "i", "n", ":", " ", "1", " ", "w", "i", "n", "d", "o", "w", "s", " ", "(", "c", "r", "e", "a", "t", "e", "d", " ", "x", ")", " ", "[", "8", "0", "x", "2", "4", "]", " ", "(", "a", "t", "t", "a", "c", "h", "e", "d", ")" >>,
      << "b", ":", " ", "2", " ", "w", "i", "n", "d", "o", "w", "s", " ", "(", "c", "r", "e", "a", "t", "e", "d", " ", "y", ")", " ", "[", "8", "x", "2", "]", "\r" >>,
      << >>,
      << " ", "\t" >>,
      << "j", "u", "n", "k" >>,
      << "c", ":", " ", "1", " ", "w", "i", "n", "d", "o", "w", "s", " ", "(", "c", "r", "e", "a", "t", "e", "d", " ", ")", " ", "[", "8", "x", "2", "]" >> }
WindowLines ==
    { << "0", ":", " ", "p", "w", "s", "h", "*", " ", "(", "2", " ", "p", "a", "n", "e", "s", ")", " ", "[", "8", "0", "x", "2", "4", "]" >>,
      << " ", "1", ":", " ", "a", " ", "(", "1", " ", "p", "a", "n", "e", ")", " ", "[", "8", "x", "2", "]", "\r" >>,
      << >>,
      << "2", ":", " ", "b", " ", "(", "1", " ", "p", "a", "n", "e", "s", ")", " ", "[", "8", "x", "2", "]", " ", "z" >>,
      << "g", "a", "r", "b", "a", "g", "e" >>,
      << "3", ":", " ", "*", "*", " ", "(", "1", " ", "p", "a", "n", "e", ")", " ", "[", "8", "x", "2", "]" >> }
PaneLines ==
    { << "%", "0", ":", " ", "[", "8", "0", "x", "2", "4", "]" >>,
      << " ", " ", "%", "1", ":", " ", "[", "7", "0", "x", "1", "9", "]", " ", "a", "l", "t", "=", "f", "a", "l", "s", "e", "\r" >>,
      << >>,
      << " " >>,
      << "n", "o", "t", " ", "a", " ", "p", "a", "n", "e" >>,
      << "x", "%", "2", ":", " ", "[", "8", "x", "2", "]" >> }

RECURSIVE Unlines(_)
Unlines(ls) ==
    IF ls = << >> THEN << >>
    ELSE Head(ls) \o << "\n" >> \o Unlines(Tail(ls))

OutputsOf(pool) ==
    { Unlines(ls) : ls \in UNION { [ 1..n -> pool ] : n \in 0..MaxLines } }

Parsed(fn, output, out) == [ fn |-> fn, output |-> output, out |-> out ]

ParseSessionsCalled ==
    /\ pure = NoPure
    /\ \E output \in OutputsOf(SessionLines) :
           pure' = Parsed("ParseSessions", output, ParseSessionsOutput(output))
    /\ UNCHANGED << rlVars, ctlVars, ttyVars, lcmdVars >>

ParseWindowsCalled ==
    /\ pure = NoPure
    /\ \E output \in OutputsOf(WindowLines) :
           pure' = Parsed("ParseWindows", output, ParseWindowsOutput(output))
    /\ UNCHANGED << rlVars, ctlVars, ttyVars, lcmdVars >>

ParsePanesCalled ==
    /\ pure = NoPure
    /\ \E output \in OutputsOf(PaneLines) :
           pure' = Parsed("ParsePanes", output, ParsePanesOutput(output))
    /\ UNCHANGED << rlVars, ctlVars, ttyVars, lcmdVars >>

NextParse ==
    \/ ParseSessionsCalled
    \/ ParseWindowsCalled
    \/ ParsePanesCalled

SpecParse == Init /\ [][NextParse]_vars

\* ------------------------------------------------------ client address
\* The texts that carry a client address: the address, with or without a
\* port, in brackets or not; addr is the address every one of them stands
\* for.
Carried(text, addr) == [ text |-> text, addr |-> addr ]

AddressForms ==
    { Carried(<< "1", "0", ".", "0", ".", "0", ".", "1" >>, << "1", "0", ".", "0", ".", "0", ".", "1" >>),
      Carried(<< "1", "0", ".", "0", ".", "0", ".", "1", ":", "1", "2", "3", "4" >>, << "1", "0", ".", "0", ".", "0", ".", "1" >>),
      Carried(<< ":", ":", "1" >>, << ":", ":", "1" >>),
      Carried(<< "[", ":", ":", "1", "]" >>, << ":", ":", "1" >>),
      Carried(<< "[", ":", ":", "1", "]", ":", "8", "0" >>, << ":", ":", "1" >>) }

\* The peer address of a connection is an address and a port.
PeerForms ==
    { Carried(<< "1", "0", ".", "0", ".", "0", ".", "2", ":", "1", "2", "3", "4" >>, << "1", "0", ".", "0", ".", "0", ".", "2" >>),
      Carried(<< "[", ":", ":", "2", "]", ":", "8", "0" >>, << ":", ":", "2" >>) }

\* X-Forwarded-For: a list whose first element is the client, or a value
\* with an empty first element.
ForwardedBy == { << >>, << ",", " ", "1", "0", ".", "0", ".", "0", ".", "2" >> }

ForwardedForms ==
    { Carried(f.text \o via, f.addr) : f \in AddressForms, via \in ForwardedBy }

NoFirstElement == { << >>, << " " >>, << ",", " ", "1", "0", ".", "0", ".", "0", ".", "1" >> }

\* X-Real-IP: one address, or nothing.
RealIPForms == AddressForms \cup { Carried(<< " ", "1", "0", ".", "0", ".", "0", ".", "1", " " >>, << "1", "0", ".", "0", ".", "0", ".", "1" >>) }

ClientRequests ==
    [ remoteAddr : { f.text : f \in PeerForms },
      xff : { f.text : f \in ForwardedForms } \cup NoFirstElement,
      xri : { f.text : f \in RealIPForms } \cup { << >> } ]

ExtractClientIPCalled ==
    /\ pure = NoPure
    /\ \E r \in ClientRequests :
           pure' = [ fn |-> "extractClientIP", r |-> r, out |-> extractClientIP(r) ]
    /\ UNCHANGED << rlVars, ctlVars, ttyVars, lcmdVars >>

NextClientIP == ExtractClientIPCalled

SpecClientIP == Init /\ [][NextClientIP]_vars

\* ================================================================ claims
\* The last operation recorded a failure of source ip.
FailureRecorded(res) ==
    \/ res.op = "recordFailure"
    \/ res.op = "wrapBasicAuth" /\ res.compared /\ ~ res.served

\* The last operation recorded a success of source ip.
SuccessRecorded(res) ==
    \/ res.op = "recordSuccess"
    \/ res.op = "wrapBasicAuth" /\ res.served

GlobalLockActive == now < authRateLimiter.globalLockedUntil

IpLockActive(ip) ==
    /\ ip \in DOMAIN authRateLimiter.attempts
    /\ now < authRateLimiter.attempts[ip].lockedUntil

\* C1: a second Stop() is a no-op that returns what the first returned and
\* never panics.  (Stated as the claim has it; the code panics.)
C1_StopIdempotent ==
    ctlResult.op = "Stop" => ( ~ panicked /\ ctlResult.err = "" )

\* C2: the n-th failure of a source since its last success leaves it
\* unlocked for n < 5 and locks it until the time of the failure plus
\* 1 minute for 5 <= n < 10, 5 minutes for 10 <= n < 20, 15 minutes from 20.
C2_LockByCount ==
    FailureRecorded(result) =>
        LET info == authRateLimiter.attempts[result.ip]
            n    == info.failCount
        IN  IF n < 5 THEN ~ (result.at < info.lockedUntil)
            ELSE IF n < 10 THEN info.lockedUntil = result.at + 60 * Second
            ELSE IF n < 20 THEN info.lockedUntil = result.at + 300 * Second
            ELSE info.lockedUntil = result.at + 900 * Second

C2_Witness ==
    /\ FailureRecorded(result)
    /\ result.at > StartTime
    /\ authRateLimiter.attempts[result.ip].failCount = 20
    /\ authRateLimiter.attempts[result.ip].lockedUntil = result.at + 900 * Second

\* C3: from one failure of a source to its next, the lockout duration
\* applied does not decrease and locked-until does not move back.  (In the
\* burst one source fails, so the last entry of the window is the time of
\* its previous failure.)
C3_LockOnlyGrows ==
    [][ \A ip \in IPs :
          ( FailureRecorded(result') /\ result'.ip = ip
            /\ ip \in DOMAIN authRateLimiter.attempts ) =>
             LET before == authRateLimiter.attempts[ip].lockedUntil
                 after  == authRateLimiter'.attempts[ip].lockedUntil
                 last   == authRateLimiter.globalFailures[Len(authRateLimiter.globalFailures)]
             IN  /\ after >= before
                 /\ before # ZeroTime => (after - now') >= (before - last) ]_vars

C3_Witness ==
    /\ FailureRecorded(result)
    /\ result.at > StartTime
    /\ authRateLimiter.attempts[result.ip].failCount = 10
    /\ authRateLimiter.globalFailures[9] = StartTime

\* C4: a success of a source that has an entry sets its count to 0 and
\* clears its lock, whatever they were; checkLocked then reports no
\* per-source lock for it.
C4_SuccessResets ==
    [][ ( SuccessRecorded(result') /\ result'.ip \in DOMAIN authRateLimiter.attempts ) =>
           /\ authRateLimiter'.attempts[result'.ip].failCount = 0
           /\ authRateLimiter'.attempts[result'.ip].lockedUntil = ZeroTime
           /\ checkLocked(authRateLimiter', result'.ip, now').reason # "ip" ]_vars

\* The source that has just succeeded had failed five times at this very
\* instant, and so was locked.
C4_Witness ==
    /\ result.op = "recordSuccess"
    /\ DOMAIN authRateLimiter.attempts = { result.ip }
    /\ authRateLimiter.attempts[result.ip].failCount = 0
    /\ Len(authRateLimiter.globalFailures) = 5
    /\ \A i \in 1..5 : authRateLimiter.globalFailures[i] = now

\* C5: a success changes nothing but the entry of its source: the window,
\* the global lock and the other entries stay, and no entry is created.
C5_SuccessFrame ==
    [][ SuccessRecorded(result') =>
           /\ authRateLimiter'.globalFailures = authRateLimiter.globalFailures
           /\ authRateLimiter'.globalLockedUntil = authRateLimiter.globalLockedUntil
           /\ DOMAIN authRateLimiter'.attempts = DOMAIN authRateLimiter.attempts
           /\ \A a \in DOMAIN authRateLimiter.attempts \ { result'.ip } :
                 authRateLimiter'.attempts[a] = authRateLimiter.attempts[a] ]_vars

C5_Witness ==
    /\ SuccessRecorded(result)
    /\ result.ip \notin DOMAIN authRateLimiter.attempts
    /\ \E a \in DOMAIN authRateLimiter.attempts :
          authRateLimiter.attempts[a].failCount > 0
    /\ Len(authRateLimiter.globalFailures) > 0

\* C6: a request that arrives while the global lock or the lock of its
\* source is active is answered 429 without its credentials being compared,
\* and the limiter is as it was.
C6_LockedOutRejected ==
    [][ ( result'.op = "wrapBasicAuth"
          /\ (GlobalLockActive \/ IpLockActive(result'.ip)) ) =>
           /\ result'.status = 429
           /\ ~ result'.compared
           /\ ~ result'.served
           /\ authRateLimiter' = authRateLimiter ]_vars

\* A source without a lock of its own, holding the credential, is turned
\* away by the global lock.
C6_Witness ==
    /\ result.op = "wrapBasicAuth"
    /\ result.status = 429
    /\ result.header = RightCredential
    /\ GlobalLockActive
    /\ ~ IpLockActive(result.ip)

\* C7: with the global lock and the lock of the caller both active,
\* checkLocked reports "global" and what remains of the global lock; it
\* reports "ip" only when no global lock is active.
C7_GlobalFirst ==
    [][ result'.op \in { "checkLocked", "wrapBasicAuth" } =>
           /\ ( GlobalLockActive /\ IpLockActive(result'.ip) ) =>
                 /\ result'.locked
                 /\ result'.reason = "global"
                 /\ result'.remaining = authRateLimiter.globalLockedUntil - now
           /\ result'.reason = "ip" => ~ GlobalLockActive ]_vars

C7_Witness ==
    /\ result.op = "checkLocked"
    /\ GlobalLockActive
    /\ IpLockActive(result.ip)
    /\ result.reason = "global"
    /\ result.remaining # authRateLimiter.attempts[result.ip].lockedUntil - now

\* What remains of the lock that turned the last request away.
RemainingLock ==
    IF result.reason = "global"
    THEN authRateLimiter.globalLockedUntil - result.at
    ELSE authRateLimiter.attempts[result.ip].lockedUntil - result.at

\* C8, as claimed: Retry-After is the remaining time in seconds rounded up
\* to a whole second, plus one.
C8_RoundedUpPlusOne ==
    result.status = 429 =>
        \E k \in 0..(RemainingLock \div Second + 1) :
            /\ (k - 1) * Second < RemainingLock
            /\ RemainingLock <= k * Second
            /\ result.retryAfter = k + 1

\* C8, amended: Retry-After is the remaining time in whole seconds, the
\* fraction dropped, plus one.
C8_TruncatedPlusOne ==
    result.status = 429 =>
        /\ (result.retryAfter - 1) * Second <= RemainingLock
        /\ RemainingLock < result.retryAfter * Second

\* A rejection with a remaining time that is not a whole number of seconds.
C8_Witness ==
    /\ result.status = 429
    /\ RemainingLock % Second # 0

\* The header values that carry the configured credential.
AcceptedHeaders ==
    { << "B","a","s","i","c"," ","d","T","p","w" >>,
      << "b","a","s","i","c"," ","d","T","p","w" >> }

\* The header values that are missing or malformed.
MalformedHeaders ==
    { << >>,
      << "B","a","s","i","c" >>,
      << "B","e","a","r","e","r"," ","d","T","p","w" >>,
      << "B","a","s","i","c"," ","d","T","p" >> }

\* C9: a request that is not locked out and whose credential header is
\* missing, malformed or wrong is answered 401 with the challenge header,
\* and the wrapped handler is not invoked.  (Stated as the claim has it; the
\* code answers 500 without a challenge to a token that is not base64.)
C9_Unauthorized ==
    ( result.op = "wrapBasicAuth" /\ ~ result.locked
      /\ result.header \notin AcceptedHeaders ) =>
        /\ result.status = 401
        /\ result.challenge
        /\ ~ result.served

\* C10: a request with a missing or malformed header leaves the limiter as
\* it was; one with a well-formed wrong credential adds one to the count of
\* its source and one timestamp, its own, to the failures of the window.
C10_OnlyMismatchCounts ==
    [][ ( result'.op = "wrapBasicAuth" /\ ~ result'.locked ) =>
           /\ result'.header \in MalformedHeaders =>
                 authRateLimiter' = authRateLimiter
           /\ result'.header = WrongCredential =>
                 LET old    == authRateLimiter.globalFailures
                     new    == authRateLimiter'.globalFailures
                     recent == { i \in 1..Len(old) : old[i] > now - 300 * Second }
                 IN  /\ FailCountOf(authRateLimiter', result'.ip)
                           = FailCountOf(authRateLimiter, result'.ip) + 1
                     /\ Len(new) = Cardinality(recent) + 1
                     /\ new[Len(new)] = now ]_vars

\* A mismatch recorded while an older failure left the window.
C10_Witness ==
    /\ result.op = "wrapBasicAuth"
    /\ result.header = WrongCredential
    /\ result.compared
    /\ FailCountOf(authRateLimiter, result.ip) = 2
    /\ Len(authRateLimiter.globalFailures) = 1

\* The failures of the window that lie within the five minutes before the
\* instant t, and the one recorded at t.
CountedAt(failures, t) ==
    Cardinality({ i \in 1..Len(failures) : failures[i] > t - 300 * Second }) + 1

\* C11: a failure recorded at t counts, against the global thresholds, the
\* failures of the five minutes before t and itself, and no older one: the
\* failure that makes them 100 sets the global lock to t plus 2 minutes, and
\* one that leaves them below 100 leaves the global lock as it was.
C11_GlobalWindow ==
    [][ FailureRecorded(result') =>
           LET counted == CountedAt(authRateLimiter.globalFailures, now')
           IN  /\ Len(authRateLimiter'.globalFailures) = counted
               /\ counted = 100 =>
                     authRateLimiter'.globalLockedUntil = now' + 120 * Second
               /\ counted < 100 =>
                     authRateLimiter'.globalLockedUntil
                         = authRateLimiter.globalLockedUntil ]_vars

\* The 101st failure of the source is the 100th of the window, an older one
\* having left it, and sets the lock.
C11_Witness ==
    /\ result.op = "recordFailure"
    /\ FailCountOf(authRateLimiter, result.ip) = 101
    /\ Len(authRateLimiter.globalFailures) = 100
    /\ authRateLimiter.globalFailures[1] = StartTime + 60 * Second
    /\ authRateLimiter.globalLockedUntil = now + 120 * Second

\* C12: a failure beyond the 100th of the window, recorded while the global
\* lock is active, does not move the end of the lock back, and does not set
\* it later than 10 minutes after that failure.
C12_LockKept ==
    [][ ( FailureRecorded(result')
          /\ CountedAt(authRateLimiter.globalFailures, now') > 100
          /\ CountedAt(authRateLimiter.globalFailures, now') < 200
          /\ now' < authRateLimiter.globalLockedUntil ) =>
           /\ authRateLimiter'.globalLockedUntil >= authRateLimiter.globalLockedUntil
           /\ authRateLimiter'.globalLockedUntil <= now' + 600 * Second ]_vars

\* The 101st failure comes a minute after the 100th, within its lock.
C12_Witness ==
    /\ result.op = "recordFailure"
    /\ Len(authRateLimiter.globalFailures) = 101
    /\ authRateLimiter.globalFailures[100] = StartTime
    /\ now = StartTime + 60 * Second
    /\ authRateLimiter.globalLockedUntil = now + 120 * Second

\* The instant of the latest failure of an entry that counts five failures
\* or more: such a failure set lockedUntil to its own time plus the duration
\* of the table, and nothing but a success, which zeroes the count, has
\* touched the entry since.
LatestFailure(info) ==
    IF info.failCount < 10 THEN info.lockedUntil - 60 * Second
    ELSE IF info.failCount < 20 THEN info.lockedUntil - 300 * Second
    ELSE info.lockedUntil - 900 * Second

\* C13: after a run of the cleanup no entry is left whose lock is over and
\* whose latest failure lies more than 30 minutes back.  (Stated as the
\* claim has it; the code keeps every entry whose count is not zero.)
C13_IdleEntriesRemoved ==
    result.op = "cleanup" =>
        \A ip \in DOMAIN authRateLimiter.attempts :
            LET info == authRateLimiter.attempts[ip]
            IN  ~ ( /\ info.failCount >= 5
                    /\ ~ (result.at < info.lockedUntil)
                    /\ result.at - LatestFailure(info) > 1800 * Second )

\* The panes of the windows of session s.
PanesOfSession(m, s) ==
    IF s \in DOMAIN m.sess
    THEN UNION { Range(m.sess[s][i].panes) : i \in 1..Len(m.sess[s]) }
    ELSE {}

\* C14: after SelectPane(id) has succeeded for a pane of the target session,
\* every listing call of its refresh having succeeded, the cached layout
\* gives id as the active pane.  (Stated as the claim has it; the code gives
\* the first pane listed for the active window.)
C14_SelectedPaneActive ==
    ( /\ ctlResult.op = "SelectPane" /\ ctlResult.err = ""
      /\ faults = 0
      /\ ctlResult.arg[2] \in PanesOfSession(mux, sessionName) ) =>
        layoutCache.ActivePaneID = ctlResult.arg

MutatingOps ==
    { "SelectPane", "SelectWindow", "SwitchSession", "SplitPane", "ClosePane",
      "NewWindow" }

ListingCalls == { "ls", "list-windows", "list-panes" }

\* The server m cannot carry out the call of operation res for a controller
\* whose target is name: the pane, window or session it names is not there.
TargetMissing(res, m, name) ==
    \/ res.op \in { "SelectPane", "ClosePane" } /\ res.arg[2] \notin MuxPanes(m)
    \/ res.op = "SelectWindow"
          /\ ( m.client \notin DOMAIN m.sess
               \/ \A i \in 1..Len(m.sess[m.client]) :
                     m.sess[m.client][i].index # res.arg[2] )
    \/ res.op = "SwitchSession" /\ res.arg[1] \notin DOMAIN m.sess
    \/ res.op \in { "SplitPane", "NewWindow" } /\ name \notin DOMAIN m.sess

\* C15: an operation of SelectPane .. NewWindow whose call cannot be carried
\* out returns an error; and whenever one of them returns an error it has
\* issued no listing call, and the cached layout and the target session
\* name are as they were.
C15_FailureLeavesState ==
    [][ ctlResult'.op \in MutatingOps =>
           /\ TargetMissing(ctlResult', mux, sessionName) => ctlResult'.err # ""
           /\ ctlResult'.err # "" =>
                 /\ \A i \in 1..Len(ctlResult'.calls) :
                       ctlResult'.calls[i].cmd \notin ListingCalls
                 /\ layoutCache' = layoutCache
                 /\ sessionName' = sessionName ]_vars

\* A window that is not there is selected while the cached layout is behind
\* the server: a refresh would have replaced it.
C15_Witness ==
    /\ ctlResult.op = "SelectWindow" /\ ctlResult.err # ""
    /\ TargetMissing(ctlResult, mux, sessionName)
    /\ layoutCache # NilLayout
    /\ refreshLayout(sessionName, mux, NoFailures).err = ""
    /\ refreshLayout(sessionName, mux, NoFailures).layout # layoutCache

\* The layouts a refresh of the server as it is now would publish.
SnapshotsNow ==
    { refreshLayout(sessionName, mux, fail).layout :
        fail \in { f \in RefreshFailures :
                     refreshLayout(sessionName, mux, f).err = "" } }

\* C16: when an operation of SelectPane .. NewWindow has returned success,
\* the cached layout is one listed after its call.  (Stated as the claim has
\* it; the code drops the error of the refresh and returns success with the
\* layout it had.)
C16_SuccessMeansFresh ==
    ( ctlResult.op \in MutatingOps /\ ctlResult.err = "" ) =>
        layoutCache \in SnapshotsNow

\* C17: a RefreshLayout whose session listing or window listing call fails
\* returns the error of that listing, and the cached layout is the one it
\* was, unchanged.
C17_ListingFailureKeepsCache ==
    [][ ctlResult'.op = "RefreshLayout" =>
           \A i \in 1..Len(ctlResult'.calls) :
              ( /\ ctlResult'.calls[i].cmd \in { "ls", "list-windows" }
                /\ ctlResult'.calls[i].out = "failed" ) =>
                 /\ ctlResult'.err = IF ctlResult'.calls[i].cmd = "ls"
                                     THEN "failed to list sessions"
                                     ELSE "failed to list windows"
                 /\ layoutCache' = layoutCache ]_vars

\* The session listing fails while the cached layout is behind the server.
C17_Witness ==
    /\ ctlResult.op = "RefreshLayout"
    /\ ctlResult.err = "failed to list sessions"
    /\ layoutCache # NilLayout
    /\ layoutCache \notin SnapshotsNow

\* C18: a RefreshLayout one of whose listings does not parse returns an
\* error and leaves the cached layout as it was.  (Stated as the claim has
\* it; the code passes over a pane listing that does not parse and
\* publishes the layout, the window without panes.)
C18_ParseErrorAborts ==
    [][ ( /\ ctlResult'.op = "RefreshLayout"
          /\ \E i \in 1..Len(ctlResult'.calls) : ctlResult'.calls[i].out = "garbled" ) =>
           /\ ctlResult'.err # ""
           /\ layoutCache' = layoutCache ]_vars

\* C20: in every layout a refresh publishes, a session is marked active
\* exactly when its name is the controller's target at that refresh, and
\* at most one session is marked active.
C20_OneActiveSession ==
    [][ ( layoutCache' # layoutCache ) =>
           LET sessions == layoutCache'.Sessions
           IN  /\ \A i \in 1..Len(sessions) :
                     sessions[i].Active <=> ( sessions[i].Name = sessionName' )
               /\ Cardinality({ i \in 1..Len(sessions) : sessions[i].Active }) <= 1
       ]_vars

\* Two sessions are listed after the target has been switched to the one
\* that is not the default.
C20_Witness ==
    /\ ctlResult.op = "SwitchSession" /\ ctlResult.err = ""
    /\ sessionName # DefaultSession
    /\ layoutCache # NilLayout
    /\ Len(layoutCache.Sessions) = 2
    /\ layoutCache.SessionName = sessionName
    /\ \E i \in 1..2 : ~ layoutCache.Sessions[i].Active

\* A layout with every field filled in: it has its windows, and its active
\* window, active pane and active session are those of its own lists.
Complete(l) ==
    /\ l # NilLayout
    /\ Len(l.Windows) > 0
    /\ l.ActiveWinID = LastActive(l.Windows).ID
    /\ l.ActivePaneID = LastActiveWithPanes(l.Windows)
    /\ l.Sessions = markActive(l.Sessions, l.SessionName)

\* C19: the layout GetLayout returns, while a RefreshLayout runs, is one the
\* cache has held and is complete, as is the one in the cache; and a layout
\* the cache has held is never written to again.
C19_ReadersSeeWholeLayouts ==
    [][ /\ \A a \in published : heap'[a] = heap[a]
        /\ got' # 0 => ( got' \in published' /\ Complete(heap'[got']) )
        /\ cachePtr' # 0 => Complete(heap'[cachePtr']) ]_vars

\* GetLayout has returned the published layout while the next one is being
\* built and lacks its windows.
C19_Witness ==
    /\ ctlResult.op = "GetLayout"
    /\ got # 0
    /\ refresher.pc = "assign"
    /\ refresher.layout # got
    /\ ~ Complete(heap[refresher.layout])

\* The subprocess command each operation of SelectPane .. NewWindow issues.
MutatingCmd ==
    [ op \in MutatingOps |->
        CASE op = "SelectPane"    -> "select-pane"
          [] op = "SelectWindow"  -> "select-window"
          [] op = "SwitchSession" -> "switch-client"
          [] op = "SplitPane"     -> "split-window"
          [] op = "ClosePane"     -> "kill-pane"
          [] op = "NewWindow"     -> "new-window" ]

\* C28: an operation of SelectPane .. NewWindow that returns no error has
\* issued its own mutating call first and once, the call having returned
\* without error, and after it the listing calls of exactly one
\* RefreshLayout: one ls, then at most one list-windows, then list-panes
\* calls only.
C28_OneCallThenOneRefresh ==
    ( ctlResult.op \in MutatingOps /\ ctlResult.err = "" ) =>
        LET calls == ctlResult.calls
        IN  /\ Len(calls) >= 2
            /\ calls[1].cmd = MutatingCmd[ctlResult.op] /\ calls[1].out = "ok"
            /\ calls[2].cmd = "ls"
            /\ \A i \in 3..Len(calls) :
                  calls[i].cmd = IF i = 3 THEN "list-windows" ELSE "list-panes"

\* A split followed by a whole refresh: ls, list-windows and a list-panes.
C28_Witness ==
    /\ ctlResult.op = "SplitPane" /\ ctlResult.err = ""
    /\ Len(ctlResult.calls) >= 4
    /\ \A i \in 1..Len(ctlResult.calls) : ctlResult.calls[i].out = "ok"

\* The calls whose -t names a session: list-windows, split-window and
\* new-window name it, list-panes names it with a window index.
SessionCalls == { "list-windows", "list-panes", "split-window", "new-window" }

\* SwitchSession sets the target session name to its argument when its
\* switch-client call succeeds and leaves it when the call fails; no other
\* step changes it; and every call of the step that names a session names
\* the target as the step leaves it.
TargetFollowsSwitch ==
    /\ ctlResult'.op = "SwitchSession" =>
          sessionName' = IF ctlResult'.calls[1].out = "ok"
                         THEN ctlResult'.arg[1] ELSE sessionName
    /\ ctlResult'.op # "SwitchSession" => sessionName' = sessionName
    /\ \A i \in 1..Len(ctlResult'.calls) :
          ctlResult'.calls[i].cmd \in SessionCalls =>
              ctlResult'.calls[i].target[1] = sessionName'

\* C30 as stated: SwitchSession(name) sets the target session name to name
\* exactly when its switch call succeeds, and every listing and mutating
\* call issued afterwards targets the new name: a call that names a session
\* names it, and a call that names a pane names a pane of that session.
C30_EveryCallTargetsName ==
    [][ /\ TargetFollowsSwitch
        /\ ( ctlResult'.op \in { "SelectPane", "ClosePane" } /\ ctlResult'.err = "" ) =>
               ctlResult'.arg[2] \in PanesOfSession(mux, sessionName) ]_vars

\* C30, amended: SwitchSession(name) sets the target session name to name
\* exactly when its switch call succeeds, and every call issued afterwards
\* that names a session (list-windows, list-panes, split-window,
\* new-window) names the new one; when the switch call fails the target is
\* unchanged.  select-pane and kill-pane name a pane, of whatever session.
C30_SessionCallsTargetName ==
    [][ TargetFollowsSwitch ]_vars

\* A window is opened in the session switched to.
C30_Witness ==
    /\ ctlResult.op = "NewWindow" /\ ctlResult.err = ""
    /\ sessionName = "build"
    /\ ctlResult.calls[1].target = << "build" >>
    /\ \E i \in 1..Len(ctlResult.calls) :
          ctlResult.calls[i].cmd = "list-panes" /\ ctlResult.calls[i].target[1] = "build"

\* The step is the handling of a message by the given handler.
HandlerStep(handler) ==
    /\ ttyResult'.handler = handler
    /\ ctlResult'.op \notin { "Start", "other client" }
    /\ psmuxCtrl' = psmuxCtrl /\ tmuxCtrl' = tmuxCtrl

\* C21: while no controller is attached, the handling of a message of any
\* tag, by handlePsmuxMessage or by handleTmuxMessage, returns no error,
\* calls no operation of a controller, issues no subprocess call, sends
\* nothing to the client and leaves the server, the target session name and
\* the cached layout as they were.
C21_NoControllerIgnored ==
    [][ /\ ( HandlerStep("psmux") /\ psmuxCtrl = "nil" ) =>
              /\ ttyResult'.err = "" /\ ttyResult'.events = << >>
              /\ ctlResult'.calls = << >>
              /\ UNCHANGED << mux, sessionName, layoutCache, faults >>
        /\ ( HandlerStep("tmux") /\ tmuxCtrl = "nil" ) =>
              /\ ttyResult'.err = "" /\ ttyResult'.events = << >>
              /\ ctlResult'.calls = << >>
              /\ UNCHANGED << mux, sessionName, layoutCache, faults >> ]_vars

\* A pane that is there is selected by a message, and no controller is
\* attached.
C21_Witness ==
    /\ ttyResult.handler = "psmux" /\ ttyResult.msgType = PsmuxSelectPane
    /\ psmuxCtrl = "nil"
    /\ ctlResult = NoCall
    /\ MuxPanes(mux) # {}

\* C29: with a controller attached, the handling of a SelectPane,
\* SelectWindow, SplitPane, ClosePane, NewWindow or SwitchSession message
\* calls the operation and, the operation having returned without error,
\* then sends exactly one LayoutUpdate and returns no error; the operation
\* having returned an error, the handler returns an error and sends
\* nothing.  (Stated for handlePsmuxMessage and the Controller.)
C29_OneUpdateAfterSuccess ==
    ( /\ ttyResult.handler = "psmux" /\ psmuxCtrl = "set"
      /\ ttyResult.msgType \in DOMAIN psmuxCases
      /\ ttyResult.events # << >> ) =>
        LET events == ttyResult.events
        IN  /\ events[1].ev = "call"
            /\ events[1].err = "" =>
                  /\ ttyResult.err = ""
                  /\ Len(events) = 2
                  /\ events[2].ev = "send" /\ events[2].tag = PsmuxLayoutUpdate
            /\ events[1].err # "" =>
                  /\ ttyResult.err # ""
                  /\ Len(events) = 1

\* C22: a call of Close on a LocalCommand whose close timeout is not
\* negative has returned, or is still within the timeout counted from its
\* start, whether the process has exited or not; and a call on one whose
\* timeout is negative has returned only through the closed event, which
\* had been signalled.
C22_CloseWithinTimeout ==
    \A i \in 1..MaxClosers :
        closers[i].pc \in { "select", "returned" } =>
            LET until == IF closers[i].pc = "returned" THEN closers[i].returnedAt
                         ELSE lcmdNow
            IN  /\ lcmd.closeTimeout >= 0 =>
                      until - closers[i].startedAt <= lcmd.closeTimeout
                /\ ( lcmd.closeTimeout < 0 /\ closers[i].pc = "returned" ) =>
                      closers[i].by = "ptyClosed" /\ lcmd.ptyClosed > 0

\* Close has returned at the end of its timeout, the process still
\* running.
C22_Witness ==
    /\ lcmd.made /\ lcmd.process = "running" /\ lcmd.closeTimeout > 0
    /\ \E i \in 1..MaxClosers :
          /\ closers[i].pc = "returned" /\ closers[i].by = "timeout"
          /\ closers[i].returnedAt - closers[i].startedAt = lcmd.closeTimeout

\* C23: the closed event of a LocalCommand is signalled once at most, by
\* the goroutine after its wait for the process has returned, and has been
\* signalled when that goroutine is done, whatever calls of Close there
\* have been; nothing has panicked, and every call of Close that has
\* returned has returned no error.
C23_ClosedOnce ==
    lcmd.made =>
        /\ lcmd.ptyClosed <= 1
        /\ lcmd.ptyClosed = 1 <=> lcmd.waiter = "done"
        /\ ~ lcmd.panicked
        /\ \A i \in 1..MaxClosers :
              closers[i].pc = "returned" => closers[i].err = ""

\* Close is called while the process runs and again after it has exited;
\* both calls have returned.
C23_Witness ==
    /\ lcmd.made /\ lcmd.ptyClosed = 1
    /\ \E i, j \in 1..MaxClosers :
          /\ closers[i].pc = "returned" /\ closers[i].process = "running"
          /\ closers[j].pc = "returned" /\ closers[j].process = "exited"

\* The lines of a parsed output that are not blank, as they stand in it,
\* trimmed; and what the expression of the parser makes of each.
InkedLines(output) ==
    LET raw == Split(output, "\n")
        inked(i) == TrimSpace(raw[i]) # << >>
        at == SelectSeq([ i \in 1..Len(raw) |-> i ], inked)
    IN  [ k \in 1..Len(at) |-> TrimSpace(raw[at[k]]) ]

\* What names the item made of a matched line.
NamedBy(fn, item) ==
    CASE fn = "ParseSessions" -> item.Name
      [] fn = "ParseWindows" -> item.Index
      [] fn = "ParsePanes" -> item.ID

NameIn(fn, m) ==
    CASE fn = "ParseSessions" -> m.name
      [] fn = "ParseWindows" -> m.index
      [] fn = "ParsePanes" -> PaneID(m.id)

ParserNames == { "ParseSessions", "ParseWindows", "ParsePanes" }

\* C24: each of the three parsers returns an error and no items when a
\* non-blank line of its input does not match its expression, whatever came
\* before that line; and otherwise no error and one item for each non-blank
\* line, in the order of the lines.
C24_AllOrNothing ==
    pure.fn \in ParserNames =>
        LET lines == InkedLines(pure.output)
            m == [ k \in 1..Len(lines) |-> regexOf(pure.fn, lines[k]) ]
        IN  IF \E k \in 1..Len(lines) : ~ m[k].match
            THEN pure.out.err /\ pure.out.v = << >>
            ELSE /\ ~ pure.out.err
                 /\ Len(pure.out.v) = Len(lines)
                 /\ \A k \in 1..Len(lines) :
                        NamedBy(pure.fn, pure.out.v[k]) = NameIn(pure.fn, m[k])

\* A call whose input has a line that matches and, after it, one that does
\* not.
C24_Witness ==
    /\ pure.fn \in ParserNames
    /\ LET lines == InkedLines(pure.output)
       IN  /\ Len(lines) >= 2
           /\ regexOf(pure.fn, lines[1]).match
           /\ ~ regexOf(pure.fn, lines[2]).match
    /\ pure.out.err

\* The listing is well formed: every non-blank line is a pane line.
WellFormedPanes ==
    /\ pure.fn = "ParsePanes"
    /\ \A l \in Range(InkedLines(pure.output)) : paneRegex(l).match

\* C25: of a well-formed pane listing, blank lines between the pane lines
\* or not, the k-th pane returned (from 0) has Index k, and the first pane
\* returned, and no other, is Active.
C25_IndexIsPosition ==
    WellFormedPanes =>
        \A k \in 1..Len(pure.out.v) :
            /\ pure.out.v[k].Index = k - 1
            /\ pure.out.v[k].Active <=> (k = 1)

\* The address a request's carriers stand for: that of the forwarded-for
\* header when it has a first element, else that of the real-IP header when
\* it is not empty, else that of the peer.
AddrOf(forms, text) == (CHOOSE f \in forms : f.text = text).addr

ClientOf(r) ==
    IF r.xff \notin NoFirstElement THEN AddrOf(ForwardedForms, r.xff)
    ELSE IF r.xri # << >> THEN AddrOf(RealIPForms, r.xri)
    ELSE AddrOf(PeerForms, r.remoteAddr)

\* C26: extractClientIP returns the client address of the first carrier
\* that has one, forwarded-for, real-IP, peer in that order, without port
\* and without brackets: the same address whichever of the three carries it
\* and in whatever form.
C26_SameBucket ==
    pure.fn = "extractClientIP" => pure.out = ClientOf(pure.r)

\* The name the claim gives the variable of a header: the prefix, then the
\* header name in upper case with "_" for every character that is neither
\* a letter nor a digit.
IsAlnum(c) == c \in Range(UpperCase) \cup Range(LowerCase) \cup Range(Digits)

NameOf(key) ==
    HttpPrefix \o [ i \in 1..Len(key) |->
                      IF IsAlnum(key[i]) THEN ToUpper(<< key[i] >>)[1] ELSE "_" ]

\* The variables New has added for the headers: what follows the
\* inherited environment and the terminal type.
Synthesized == SubSeq(pure.env, Len(pure.environ) + 2, Len(pure.env))

VariablesOf(key) ==
    { i \in 1..Len(Synthesized) :
          Synthesized[i] = NameOf(key) \o << "=" >> \o Join(pure.headers[key], << "," >>) }

\* C27: for every header the caller gave, exactly one of the synthesized
\* variables has the name made of the prefix and the upper-cased header
\* name with "_" for every non-alphanumeric character, and the header's
\* values joined by "," as its value.
C27_OneVariablePerHeader ==
    pure.fn = "New" =>
        \A key \in DOMAIN pure.headers : Cardinality(VariablesOf(key)) = 1

\* The list-panes calls of the last operation, and whether one failed.
PaneCalls == SelectSeq(ctlResult.calls, LAMBDA c : c.cmd = "list-panes")
PaneCallFailed == \E i \in 1..Len(PaneCalls) : PaneCalls[i].out = "failed"

\* The window of index n as the cached layout has it.
CachedWindow(n) ==
    CHOOSE w \in Range(layoutCache.Windows) : w.Index = n

\* C31: a RefreshLayout in which the pane listing call of a window fails
\* returns no error and publishes a layout that has every window listed,
\* the window whose call failed with no panes and every window whose call
\* succeeded with the panes the server lists for it.
C31_PaneFailureTolerated ==
    (ctlResult.op = "RefreshLayout" /\ PaneCallFailed) =>
        /\ ctlResult.err = ""
        /\ layoutCache # NilLayout
        /\ [ i \in 1..Len(layoutCache.Windows) |-> layoutCache.Windows[i].Index ]
             = [ i \in 1..Len(PaneCalls) |-> PaneCalls[i].target[2] ]
        /\ \A i \in 1..Len(PaneCalls) :
              LET n == PaneCalls[i].target[2]
              IN  /\ PaneCalls[i].out = "failed" => CachedWindow(n).Panes = << >>
                  /\ PaneCalls[i].out = "ok" =>
                        CachedWindow(n).Panes
                          = ParsePanes(muxListPanes(mux, sessionName, n)).v

\* A refresh of two windows: the listing of one fails, the other is
\* published with its panes.
C31_Witness ==
    /\ ctlResult.op = "RefreshLayout"
    /\ PaneCallFailed
    /\ \E i \in 1..Len(PaneCalls) :
          /\ PaneCalls[i].out = "ok"
          /\ CachedWindow(PaneCalls[i].target[2]).Panes # << >>

\* The tags each handler has a case for.
Implemented(handler) ==
    IF handler = "psmux" THEN { "5", "6", "7", "8", "D", "E" }
    ELSE { "5", "6", "7", "8", "9", "B", "C", "D", "E" }

AttachedTo(handler) == IF handler = "psmux" THEN psmuxCtrl ELSE tmuxCtrl

\* The step handles a message whose tag the handler has no case for.
UnknownTagStep(handler) ==
    /\ HandlerStep(handler)
    /\ ttyResult'.msgType \notin Implemented(handler)

\* The message is answered with the error of the default case: no
\* operation of the controller, no subprocess call, nothing sent.
Rejected(handler) ==
    /\ ttyResult'.err = IF handler = "psmux" THEN "unknown psmux message type"
                        ELSE "unknown tmux message type"
    /\ ttyResult'.events = << >>
    /\ ctlResult' = NoCall
    /\ UNCHANGED << mux, sessionName, layoutCache, faults >>

\* C32 as stated: the handling of a message whose tag the handler has no
\* case for returns the unknown-message-type error, calls no operation of
\* the controller and sends nothing, a controller being attached or not.
C32_UnknownTagRejected ==
    [][ \A handler \in { "psmux", "tmux" } :
            UnknownTagStep(handler) => Rejected(handler) ]_vars

\* C32, amended: with a controller attached, the handling of a message
\* whose tag the handler has no case for returns the unknown-message-type
\* error, calls no operation of the controller and sends nothing; with no
\* controller attached it returns no error, and does as little.
C32_UnknownTagRejectedWhenAttached ==
    [][ \A handler \in { "psmux", "tmux" } :
            UnknownTagStep(handler) =>
                IF AttachedTo(handler) = "set" THEN Rejected(handler)
                ELSE /\ ttyResult'.err = "" /\ ttyResult'.events = << >>
                     /\ ctlResult' = NoCall
                     /\ UNCHANGED << mux, sessionName, layoutCache, faults >> ]_vars

\* The reserved tag, which isTmuxMessage knows and the switch does not, has
\* been handled with the tmux controller attached.
C32_Witness ==
    /\ tmuxCtrl = "set"
    /\ ttyResult.handler = "tmux" /\ ttyResult.msgType = TmuxSendCommand
    /\ ttyResult.err = "unknown tmux message type"

\* The calls of the last operation that run the command cmd.
CallsOf(cmd) == SelectSeq(ctlResult.calls, LAMBDA c : c.cmd = cmd)

\* C33: Start probes the session and issues the creation call exactly when
\* the probe has failed; when the creation fails it returns an error and
\* issues no listing call; otherwise it runs RefreshLayout once; and when
\* it returns no error the cached layout is not nil.
C33_StartEnsuresThenRefreshes ==
    ctlResult.op = "Start" =>
        LET calls == ctlResult.calls
            probeFailed == calls[1].out = "failed"
            creations == CallsOf("new-session")
            listings == { i \in 1..Len(calls) :
                            calls[i].cmd \in { "ls", "list-windows", "list-panes" } }
        IN  /\ calls[1].cmd = "has-session" /\ Len(CallsOf("has-session")) = 1
            /\ Len(creations) = IF probeFailed THEN 1 ELSE 0
            /\ probeFailed => calls[2].cmd = "new-session"
            /\ IF probeFailed /\ calls[2].out = "failed"
               THEN ctlResult.err # "" /\ listings = { }
               ELSE /\ Len(CallsOf("ls")) = 1
                    /\ \A i \in listings : i > Len(calls) - Cardinality(listings)
            /\ ctlResult.err = "" => layoutCache # NilLayout

\* Start has found no session, created it, and refreshed.
C33_Witness ==
    /\ ctlResult.op = "Start" /\ ctlResult.err = ""
    /\ Len(CallsOf("new-session")) = 1
    /\ CallsOf("new-session")[1].out = "ok"
    /\ layoutCache # NilLayout

C35_NothingComparedWhileLocked ==
    [][ (result'.op = "wrapBasicAuth" /\ result'.compared) =>
            ~ checkLockedIpOnly(authRateLimiter, result'.ip, now).locked ]_vars

\* C36: with the requests handled one at a time the pruned window never
\* holds 200 failures, and the global lock never reaches further ahead than
\* the two minutes of the first rule.
C36_SecondRuleNeverFires ==
    /\ Len(authRateLimiter.globalFailures) < globalLockoutRules[2].failures
    /\ authRateLimiter.globalLockedUntil <= now + globalLockoutRules[1].duration

\* A guess compared and recorded after the global lock has expired, the
\* hundred failures that set it still in the window.
C36_Witness ==
    /\ result.op = "wrapBasicAuth"
    /\ result.compared
    /\ result.at > StartTime
    /\ Len(authRateLimiter.globalFailures) > globalLockoutRules[1].failures
    /\ Before(now, authRateLimiter.globalLockedUntil)

\* C37: the requests of one transport peer fall into one bucket whatever
\* headers they carry, so while the bucket of a peer's own address is locked
\* no request of that peer has its credentials compared.
C37_PeerCannotLeaveItsBucket ==
    \A r \in Requests :
        checkLockedIpOnly(authRateLimiter, hostOf(TrimSpace(r.remoteAddr)), now).locked
            => ~ wrapBasicAuth(authRateLimiter, r, now).resp.compared

\* C38: a cached layout names the session the controller targets.
C38_LayoutNamesTarget ==
    layoutCache # NilLayout => layoutCache.SessionName = sessionName

\* C39: in a published layout an ActiveWinID that is not empty is the id of
\* a window of the layout marked active, an ActivePaneID that is not empty
\* is the id of the first pane of that window, and ActivePaneID is empty
\* when that window was published without panes.
C39_ActiveIdsAgree ==
    layoutCache # NilLayout =>
        LET l     == layoutCache
            named == { i \in 1..Len(l.Windows) : l.Windows[i].ID = l.ActiveWinID }
        IN  /\ l.ActiveWinID # << >> =>
                  \E i \in named : l.Windows[i].Active
            /\ l.ActivePaneID # << >> =>
                  \E i \in named : /\ l.Windows[i].Active
                                    /\ Len(l.Windows[i].Panes) > 0
                                    /\ l.Windows[i].Panes[1].ID = l.ActivePaneID
            /\ \A i \in named : Len(l.Windows[i].Panes) = 0 => l.ActivePaneID = << >>

\* A layout of two windows whose active window, the second, has its panes,
\* and one whose active window was published without them.
C39_Witness ==
    /\ layoutCache # NilLayout
    /\ Len(layoutCache.Windows) = 2
    /\ layoutCache.Windows[2].Active
    /\ Len(layoutCache.Windows[1].Panes) > 0
    /\ Len(layoutCache.Windows[2].Panes) = 0
    /\ layoutCache.ActiveWinID = layoutCache.Windows[2].ID

====
